---- MODULE Spec2Model ----
(***************************************************************************)
(* The operational control plane of the movie backend: the metrics/alert   *)
(* monitor (MonitoringService.ts) and the cache-aside layer                *)
(* (CacheService.ts).                                                      *)
(*                                                                         *)
(* Time is the value of Date.now(), counted in whole seconds: every time   *)
(* constant of the code is a whole number of seconds.                      *)
(***************************************************************************)
EXTENDS Integers, Sequences, FiniteSets, TLC

VARIABLES
    now,            \* Date.now(), in seconds
    events,         \* number of inputs taken so far (bounds the run)
    requests,       \* this.metrics.requests
    errors,         \* this.metrics.errors
    systemMetrics,  \* this.metrics.systemMetrics
    alerts,         \* this.alerts: the entries of the Map, one record per entry
    omdbStatus,     \* what OMDbService.healthCheck() reports at this moment
    last,           \* the most recent call and what it returned
    redis,          \* the entries the cache server holds
    redisUp,        \* whether the cache server answers this.redis at this moment
    stats,          \* this.stats of the CacheService
    inflight,       \* per caller, the getOrSet call it is in and where
    calls,          \* the getOrSet calls that have ended, in order
    jobs,           \* this.jobs of the SchedulerService: per name, the config
    tasks,          \* this.jobs: per name, whether the cron task is started
    running,        \* the invocations of job bodies in progress
    trending,       \* the committed rows of the trending_movies table
    cards,          \* the movies that have a row in llm_movie_cards
    home            \* the home page of the web client: its state and requests

vars == <<now, events, requests, errors, systemMetrics, alerts, omdbStatus, last,
          redis, redisUp, stats, inflight, calls, jobs, tasks, running, trending,
          cards, home>>

monitorVars == <<requests, errors, systemMetrics, alerts>>

cacheVars == <<redis, redisUp, stats, inflight, calls>>

schedVars == <<jobs, tasks, running>>

-----------------------------------------------------------------------------
(* Bounds of the model *)

\* The runs explored take at most MaxEvents inputs: clock advances,
\* recorded requests, errors and system samples, and getOrSet calls.
MaxEvents == 3

\* How many runs of the trending refresh can be under way at once
MaxOverlap == 2

-----------------------------------------------------------------------------
(* Constants of the program *)

CpuThreshold == 80
MemoryThreshold == 85
ResponseTimeThreshold == 1000
ErrorRateThreshold == 5

RequestsCap == 1000
ErrorsCap == 500
SystemMetricsCap == 100

FiveMinutes == 300
AutoResolveTime == 600
OneHour == 3600
OneDay == 86400

\* os.cpus().length of the host
Cores == 4

-----------------------------------------------------------------------------
(* Inputs *)

MonitorSteps == {600, 86400}

Endpoints == {"/api/movies"}
Statuses == {200}
ResponseTimes == {1000, 2000}
ErrorTypes == {"database"}
ErrorMessages == {"timeout"}
\* System readings: cpu.usage, memory.usagePercent, loadAverage[0]
Readings == {[cpu |-> 0, memory |-> 50, load |-> 2],
             [cpu |-> 80, memory |-> 85, load |-> 0],
             [cpu |-> 0, memory |-> 90, load |-> 4],
             [cpu |-> 90, memory |-> 95, load |-> 4]}

\* How a dependency's healthCheck() can end
HealthOutcomes == {"healthy", "unhealthy", "throws"}

ErrorAlertId(type) == <<"error", type>>

SystemAlertIds == {<<"high-cpu-usage">>, <<"high-memory-usage">>, <<"high-load-average">>}

AlertIds == SystemAlertIds
            \cup {<<"high-response-time">>, <<"high-error-rate">>}
            \cup {ErrorAlertId(t) : t \in ErrorTypes}

UnknownAlertId == <<"no-such-alert">>

NoDate == -1

-----------------------------------------------------------------------------
(* Helpers *)

\* Array.prototype.slice(-n)
SliceFirst(s, n) == IF Len(s) > n THEN SubSeq(s, 1, n) ELSE s

SliceLast(s, n) == IF Len(s) > n THEN SubSeq(s, Len(s) - n + 1, Len(s)) ELSE s

\* { ...a, ...b }
Spread(a, b) ==
    [k \in (DOMAIN a) \cup (DOMAIN b) |-> IF k \in DOMAIN b THEN b[k] ELSE a[k]]

\* A template-literal message: the fixed text, the numbers and the string
\* interpolated into it.
Message(text, nums, str) == [text |-> text, nums |-> nums, str |-> str]

\* Map.prototype.get: the entry stored under a key
MapHas(m, id) == \E a \in m : a.id = id
MapGet(m, id) == CHOOSE a \in m : a.id = id

\* Map.prototype.set: the entry under the key is replaced
MapSet(m, id, alert) == {a \in m : a.id # id} \cup {alert}

-----------------------------------------------------------------------------
(* MonitoringService: alerts *)

\* createAlert that stores every breach as an entry of its own
CreateAlertPerBreach(m, id, type, message, metadata, t) ==
    m \cup {[id |-> id, type |-> type, message |-> message,
             timestamp |-> t, resolved |-> FALSE,
             resolvedAt |-> NoDate, metadata |-> metadata]}

\* createAlert(id, type, message, metadata), called at time t
CreateAlert(m, id, type, message, metadata, t) ==
    IF MapHas(m, id) /\ ~MapGet(m, id).resolved
    THEN LET existingAlert == MapGet(m, id) IN
         (m \ {existingAlert}) \cup
            {[existingAlert EXCEPT !.timestamp = t,
                                   !.metadata = Spread(existingAlert.metadata, metadata)]}
    ELSE MapSet(m, id, [id |-> id, type |-> type, message |-> message,
                        timestamp |-> t, resolved |-> FALSE,
                        resolvedAt |-> NoDate, metadata |-> metadata])

\* resolveAlert that reports success for any alert it finds
ResolveAlertReturnsFound(m, id) == MapHas(m, id)

\* resolveAlert(id): the value it returns
ResolveAlertReturns(m, id) == MapHas(m, id) /\ ~MapGet(m, id).resolved

\* resolveAlert(id): the alerts it leaves, called at time t
ResolveAlertEffect(m, id, t) ==
    IF ~MapHas(m, id) \/ MapGet(m, id).resolved
    THEN m
    ELSE LET alert == MapGet(m, id) IN
         (m \ {alert}) \cup {[alert EXCEPT !.resolved = TRUE, !.resolvedAt = t]}

\* The load-average breach test of checkSystemAlerts: avgLoad && avgLoad > cores * 0.8
LoadOver(sample) == sample.load # 0 /\ sample.load * 10 > sample.cores * 8

\* checkSystemAlerts(metrics), called at time t
CheckSystemAlerts(m, sample, t) ==
    LET m1 == IF sample.cpu > CpuThreshold
              THEN CreateAlert(m, <<"high-cpu-usage">>, "warning",
                               Message("High CPU usage", <<sample.cpu>>, ""),
                               [cpuUsage |-> sample.cpu], t)
              ELSE m
        m2 == IF sample.memory > MemoryThreshold
              THEN CreateAlert(m1, <<"high-memory-usage">>, "warning",
                               Message("High memory usage", <<sample.memory>>, ""),
                               [memoryUsage |-> sample.memory], t)
              ELSE m1
    IN  IF LoadOver(sample)
        THEN CreateAlert(m2, <<"high-load-average">>, "warning",
                         Message("High load average", <<sample.load, sample.cores>>, ""),
                         [loadAverage |-> sample.load, cores |-> sample.cores], t)
        ELSE m2

\* shouldAutoResolveAlert that lets the sweep close the alerts it has no
\* reading for
ShouldAutoResolveAlertByDefault(id, samples) ==
    IF samples = <<>> THEN FALSE
    ELSE LET latest == samples[Len(samples)] IN
         CASE id = <<"high-cpu-usage">> -> latest.cpu <= CpuThreshold
           [] id = <<"high-memory-usage">> -> latest.memory <= MemoryThreshold
           [] id = <<"high-load-average">> ->
                IF latest.load # 0 THEN latest.load * 10 <= latest.cores * 8 ELSE FALSE
           [] OTHER -> TRUE

\* shouldAutoResolveAlert(id, alert)
ShouldAutoResolveAlert(id, samples) ==
    IF samples = <<>> THEN FALSE
    ELSE LET latest == samples[Len(samples)] IN
         CASE id = <<"high-cpu-usage">> -> latest.cpu <= CpuThreshold
           [] id = <<"high-memory-usage">> -> latest.memory <= MemoryThreshold
           [] id = <<"high-load-average">> ->
                IF latest.load # 0 THEN latest.load * 10 <= latest.cores * 8 ELSE FALSE
           [] OTHER -> FALSE

\* autoResolveAlerts without the minimum age
AutoResolveAlertsNoGrace(m, samples, t) ==
    {IF ~a.resolved /\ ShouldAutoResolveAlert(a.id, samples)
     THEN [a EXCEPT !.resolved = TRUE, !.resolvedAt = t]
     ELSE a : a \in m}

\* autoResolveAlerts(), called at time t
AutoResolveAlerts(m, samples, t) ==
    {IF ~a.resolved /\ (t - a.timestamp) > AutoResolveTime
        /\ ShouldAutoResolveAlert(a.id, samples)
     THEN [a EXCEPT !.resolved = TRUE, !.resolvedAt = t]
     ELSE a : a \in m}

\* The error-rate part of checkAlerts(), called at time t
CheckErrorRateUnguarded(m, reqs, errs, t) ==
    LET fiveMinutesAgo == t - FiveMinutes
        recentErrors == SelectSeq(errs, LAMBDA e : e.timestamp > fiveMinutesAgo)
        recentRequests == SelectSeq(reqs, LAMBDA r : r.timestamp > fiveMinutesAgo)
        nErr == Len(recentErrors)
        nReq == Len(recentRequests)
    IN  IF nErr * 100 > ErrorRateThreshold * nReq
        THEN CreateAlert(m, <<"high-error-rate">>, "error",
                         Message("High error rate", <<nErr, nReq>>, ""),
                         [errorRate |-> <<nErr * 100, nReq>>,
                          errorCount |-> nErr, requestCount |-> nReq], t)
        ELSE m

CheckErrorRate(m, reqs, errs, t) ==
    LET fiveMinutesAgo == t - FiveMinutes
        recentErrors == SelectSeq(errs, LAMBDA e : e.timestamp > fiveMinutesAgo)
        recentRequests == SelectSeq(reqs, LAMBDA r : r.timestamp > fiveMinutesAgo)
        nErr == Len(recentErrors)
        nReq == Len(recentRequests)
    IN  IF nReq > 0 /\ nErr * 100 > ErrorRateThreshold * nReq
        THEN CreateAlert(m, <<"high-error-rate">>, "error",
                         Message("High error rate", <<nErr, nReq>>, ""),
                         [errorRate |-> <<nErr * 100, nReq>>,
                          errorCount |-> nErr, requestCount |-> nReq], t)
        ELSE m

\* A call that returns nothing
Void == [op |-> "void", ret |-> "void"]

-----------------------------------------------------------------------------
(* MonitoringService: operations *)

\* recordRequest(endpoint, responseTime, status)
RecordRequest(endpoint, responseTime, status) ==
    /\ events < MaxEvents
    /\ events' = events + 1
    /\ requests' = SliceLast(Append(requests,
                        [timestamp |-> now, responseTime |-> responseTime,
                         status |-> status, endpoint |-> endpoint]), RequestsCap)
    /\ alerts' = IF responseTime > ResponseTimeThreshold
                 THEN CreateAlert(alerts, <<"high-response-time">>, "warning",
                                  Message("High response time detected", <<responseTime>>, endpoint),
                                  [endpoint |-> endpoint, responseTime |-> responseTime,
                                   status |-> status], now)
                 ELSE alerts
    /\ last' = Void
    /\ UNCHANGED <<now, errors, systemMetrics, omdbStatus, trending, cards, home>>
    /\ UNCHANGED schedVars
    /\ UNCHANGED cacheVars

\* recordError(type, message)
RecordError(type, message) ==
    /\ events < MaxEvents
    /\ events' = events + 1
    /\ errors' = SliceLast(Append(errors,
                        [timestamp |-> now, type |-> type, message |-> message]), ErrorsCap)
    /\ alerts' = CreateAlert(alerts, ErrorAlertId(type), "error",
                             Message("Error occurred", <<>>, message),
                             [type |-> type], now)
    /\ last' = Void
    /\ UNCHANGED <<now, requests, systemMetrics, omdbStatus, trending, cards, home>>
    /\ UNCHANGED schedVars
    /\ UNCHANGED cacheVars

\* collectSystemMetrics(): the 30-second timer; the readings are inputs
CollectSystemMetrics(cpu, memory, load) ==
    /\ events < MaxEvents
    /\ events' = events + 1
    /\ LET metrics == [cpu |-> cpu, memory |-> memory, load |-> load, cores |-> Cores]
       IN  /\ systemMetrics' = SliceLast(Append(systemMetrics, metrics), SystemMetricsCap)
           /\ alerts' = CheckSystemAlerts(alerts, metrics, now)
    /\ last' = Void
    /\ UNCHANGED <<now, requests, errors, omdbStatus, trending, cards, home>>
    /\ UNCHANGED schedVars
    /\ UNCHANGED cacheVars

\* checkAlerts(): the one-minute timer
CheckAlerts ==
    /\ alerts' = AutoResolveAlerts(CheckErrorRate(alerts, requests, errors, now),
                                   systemMetrics, now)
    /\ last' = [op |-> "checkAlerts", ret |-> "void"]
    /\ UNCHANGED <<now, events, requests, errors, systemMetrics, omdbStatus, trending, cards, home>>
    /\ UNCHANGED schedVars
    /\ UNCHANGED cacheVars

\* cleanOldMetrics(): the five-minute timer
CleanOldMetricsAnyResolved ==
    LET oneHourAgo == now - OneHour
    IN  /\ requests' = SelectSeq(requests, LAMBDA r : r.timestamp > oneHourAgo)
        /\ errors' = SelectSeq(errors, LAMBDA e : e.timestamp > oneHourAgo)
        /\ alerts' = {a \in alerts : ~a.resolved}
        /\ last' = Void
        /\ UNCHANGED <<now, events, systemMetrics, omdbStatus, trending, cards, home>>
        /\ UNCHANGED schedVars
        /\ UNCHANGED cacheVars

CleanOldMetrics ==
    LET oneHourAgo == now - OneHour
        oneDayAgo == now - OneDay
    IN  /\ requests' = SelectSeq(requests, LAMBDA r : r.timestamp > oneHourAgo)
        /\ errors' = SelectSeq(errors, LAMBDA e : e.timestamp > oneHourAgo)
        /\ alerts' = {a \in alerts :
                        ~(a.resolved /\ a.resolvedAt # NoDate /\ a.resolvedAt < oneDayAgo)}
        /\ last' = Void
        /\ UNCHANGED <<now, events, systemMetrics, omdbStatus, trending, cards, home>>
        /\ UNCHANGED schedVars
        /\ UNCHANGED cacheVars

\* resolveAlert(id)
ResolveAlert(id) ==
    /\ alerts' = ResolveAlertEffect(alerts, id, now)
    /\ last' = [op |-> "resolveAlert", ret |-> ResolveAlertReturns(alerts, id)]
    /\ UNCHANGED <<now, events, requests, errors, systemMetrics, omdbStatus, trending, cards, home>>
    /\ UNCHANGED schedVars
    /\ UNCHANGED cacheVars

\* What getHealthStatus() records for a dependency whose healthCheck() ended
\* in `outcome`: a status, or an exception caught by the try/catch around it
ServiceStatus(outcome) == IF outcome = "healthy" THEN "healthy" ELSE "unhealthy"

\* getHealthStatus that forgets to leave the resolved alerts out
HealthStatusAllAlerts(m, dbOutcome, cacheOutcome) ==
    LET services == [database |-> ServiceStatus(dbOutcome),
                     cache |-> ServiceStatus(cacheOutcome)]
        overallStatus ==
            IF (\E s \in DOMAIN services : services[s] = "unhealthy")
               \/ \E a \in m : a.type = "critical"
            THEN "unhealthy"
            ELSE IF \E a \in m : a.type = "error" \/ a.type = "warning"
                 THEN "degraded"
                 ELSE "healthy"
    IN  [status |-> overallStatus, services |-> services, alerts |-> m]

\* The value getHealthStatus() returns, the database's and the cache's
\* healthCheck() having ended in dbOutcome and cacheOutcome
HealthStatus(m, dbOutcome, cacheOutcome) ==
    LET services == [database |-> ServiceStatus(dbOutcome),
                     cache |-> ServiceStatus(cacheOutcome)]
        unhealthyServices == {s \in DOMAIN services : services[s] = "unhealthy"}
        activeAlerts == {a \in m : ~a.resolved}
        overallStatus ==
            IF unhealthyServices # {} \/ \E a \in activeAlerts : a.type = "critical"
            THEN "unhealthy"
            ELSE IF \E a \in activeAlerts : a.type = "error" \/ a.type = "warning"
                 THEN "degraded"
                 ELSE "healthy"
    IN  [status |-> overallStatus, services |-> services, alerts |-> activeAlerts]

\* getHealthStatus(). The two awaited polls keep their results in locals and
\* this.alerts is read once, after them, so the call is one step taken at the
\* moment of that read, with the polls' outcomes as inputs.
GetHealthStatus(dbOutcome, cacheOutcome) ==
    /\ last' = [op |-> "getHealthStatus",
                ret |-> HealthStatus(alerts, dbOutcome, cacheOutcome)]
    /\ UNCHANGED <<now, events, monitorVars, omdbStatus, trending, cards, home>>
    /\ UNCHANGED schedVars
    /\ UNCHANGED cacheVars

\* Math.floor(n * 0.95) and Math.floor(n * 0.99): pct is the percentile in
\* hundredths. For every n up to RequestsCap the double product n * 0.95
\* (n * 0.99) has the same floor as the exact one.
PercentileIndexCeil(n, pct) == (n * pct + 99) \div 100

PercentileIndex(n, pct) == (n * pct) \div 100

\* array[i] || 0 for a 0-based index i into an array of numbers
ElementOrZero(array, i) == IF i + 1 \in DOMAIN array THEN array[i + 1] ELSE 0

\* reduce((sum, time) => sum + time, 0)
RECURSIVE Sum(_)
Sum(array) == IF array = <<>> THEN 0 ELSE array[1] + Sum(Tail(array))

\* The response-time and throughput figures getPerformanceMetrics() returns
\* at time t; the average is the pair <<sum, count>>
PerformanceMetrics(reqs, errs, t) ==
    LET oneHourAgo == t - OneHour
        oneMinuteAgo == t - 60
        recentRequests == SelectSeq(reqs, LAMBDA r : r.timestamp > oneHourAgo)
        recentErrors == SelectSeq(errs, LAMBDA e : e.timestamp > oneHourAgo)
        lastMinuteRequests == SelectSeq(reqs, LAMBDA r : r.timestamp > oneMinuteAgo)
        responseTimes == SortSeq([i \in DOMAIN recentRequests |-> recentRequests[i].responseTime],
                                 LAMBDA a, b : a < b)
        avgResponseTime == IF Len(responseTimes) > 0
                           THEN <<Sum(responseTimes), Len(responseTimes)>>
                           ELSE <<0, 1>>
        p95Index == PercentileIndex(Len(responseTimes), 95)
        p99Index == PercentileIndex(Len(responseTimes), 99)
    IN  [responseTime |-> [average |-> avgResponseTime,
                           min |-> ElementOrZero(responseTimes, 0),
                           max |-> ElementOrZero(responseTimes, Len(responseTimes) - 1),
                           p95 |-> ElementOrZero(responseTimes, p95Index),
                           p99 |-> ElementOrZero(responseTimes, p99Index)],
         throughput |-> [requestsPerMinute |-> Len(lastMinuteRequests)],
         errors |-> [total |-> Len(recentErrors)]]

\* getPerformanceMetrics(). The figures are computed from this.metrics before
\* the one await, so the call is one step taken at the moment it starts.
GetPerformanceMetrics ==
    /\ last' = [op |-> "getPerformanceMetrics",
                ret |-> PerformanceMetrics(requests, errors, now)]
    /\ UNCHANGED <<now, events, monitorVars, omdbStatus, trending, cards, home>>
    /\ UNCHANGED schedVars
    /\ UNCHANGED cacheVars

-----------------------------------------------------------------------------
(* CacheService *)

\* What a fetchFunction can resolve to: two records, and null
NullValue == "null-value"
Values == {"A", "B", NullValue}

\* A fetchFunction that rejects
Throws == "throws"
FetchOutcomes == Values \cup {Throws}

\* The nil reply of redis.get
NoText == "nil"

\* options.ttl left out, and the constructor's default
NoTtl == 0
DefaultTTL == 3600
TtlOptions == {NoTtl, 60}

\* this.keyPrefix
KeyPrefix == "movie-app:"

\* A key is the sequence of its parts; the keys callers use, by namespace
CacheKeys == {<<"trending:", "popular">>, <<"search:", "batman">>,
              <<"temp:", "upload">>, <<"movie:", "tt0372784">>}

\* The key the getOrSet calls explored are made with
Keys == {<<"trending:", "popular">>}
Callers == {"c1"}

\* The patterns the jobs and the operators clear by
Patterns == {<<"trending:", "*">>, <<"search:", "*">>, <<"temp:", "*">>}

\* What the store operations explored write
StoredValues == {"A"}
CacheSteps == {30, 90, 3600}

\* generateKey(key, prefix) with options.prefix left out
GenerateKey(key) == <<KeyPrefix>> \o key

\* JSON.stringify
Serialize(value) ==
    CASE value = NullValue -> "null"
      [] value = "A" -> "\"A\""
      [] value = "B" -> "\"B\""
      [] value = "tt0" -> "{movies:[tt0]}"
      [] value = "tt1" -> "{movies:[tt1]}"
      [] value = "tt2" -> "{movies:[tt2]}"
      [] value = "tt1,tt2" -> "{movies:[tt1,tt2]}"

\* A text in the server that is not JSON: one another client of the server
\* wrote, or one cut short
Garbled == "\"A"

\* JSON.parse; deserialize rethrows what it throws
Deserialize(text) ==
    CASE text = "null" -> NullValue
      [] text = "\"A\"" -> "A"
      [] text = "\"B\"" -> "B"
      [] text = Garbled -> Throws
      [] text = "{movies:[tt0]}" -> "tt0"
      [] text = "{movies:[tt1]}" -> "tt1"
      [] text = "{movies:[tt2]}" -> "tt2"
      [] text = "{movies:[tt1,tt2]}" -> "tt1,tt2"

\* options.ttl || this.defaultTTL
EffectiveTtl(ttl) == IF ttl # NoTtl THEN ttl ELSE DefaultTTL

\* The entries of the server whose time to live has not run out at time t
Unexpired(store, t) == {e \in store : e.expiresAt > t}

\* redis.get(key) at time t: the stored text, or NoText for the nil reply
RedisGet(store, key, t) ==
    IF \E e \in Unexpired(store, t) : e.key = key
    THEN (CHOOSE e \in Unexpired(store, t) : e.key = key).text
    ELSE NoText

\* The moment the entry redis.get(key) replies with was written
WrittenAt(store, key, t) == (CHOOSE e \in Unexpired(store, t) : e.key = key).storedAt

\* redis.setEx(key, ttl, text) at time t
RedisSetEx(store, key, ttl, text, t) ==
    {e \in Unexpired(store, t) : e.key # key} \cup {[key |-> key, text |-> text, storedAt |-> t, expiresAt |-> t + ttl]}

\* get(key): what it returns, whether it counts a hit, whether it counts a
\* miss, and whether it went through its catch block. A text that does not
\* parse is counted as a hit before deserialize throws and as a miss in the
\* catch block.
Get(store, up, key, t) ==
    IF ~up THEN [value |-> NullValue, hit |-> FALSE, miss |-> TRUE, failed |-> TRUE, storedAt |-> t]
    ELSE IF RedisGet(store, GenerateKey(key), t) = NoText
         THEN [value |-> NullValue, hit |-> FALSE, miss |-> TRUE, failed |-> FALSE, storedAt |-> t]
         ELSE IF Deserialize(RedisGet(store, GenerateKey(key), t)) = Throws
         THEN [value |-> NullValue, hit |-> TRUE, miss |-> TRUE, failed |-> TRUE, storedAt |-> t]
         ELSE [value |-> Deserialize(RedisGet(store, GenerateKey(key), t)), hit |-> TRUE,
               miss |-> FALSE, failed |-> FALSE,
               storedAt |-> WrittenAt(store, GenerateKey(key), t)]

\* this.stats after a get: this.stats.hits++ and this.stats.misses++
StatsAfter(st, got) ==
    [hits |-> st.hits + (IF got.hit THEN 1 ELSE 0),
     misses |-> st.misses + (IF got.miss THEN 1 ELSE 0)]

\* set(key, value, options) at time t: the store it leaves
Set(store, up, key, value, ttl, t) ==
    IF up THEN RedisSetEx(store, GenerateKey(key), EffectiveTtl(ttl), Serialize(value), t)
    ELSE store

\* The glob match of redis.keys, part by part: "*" stands for any parts
RECURSIVE GlobMatch(_, _)
GlobMatch(pattern, key) ==
    IF pattern = <<>> THEN key = <<>>
    ELSE IF Head(pattern) = "*"
         THEN \/ GlobMatch(Tail(pattern), key)
              \/ key # <<>> /\ GlobMatch(pattern, Tail(key))
         ELSE key # <<>> /\ Head(key) = Head(pattern) /\ GlobMatch(Tail(pattern), Tail(key))

\* redis.keys(pattern) at time t
RedisKeys(store, pattern, t) == {e.key : e \in {x \in Unexpired(store, t) : GlobMatch(pattern, x.key)}}

\* redis.del(keys) at time t: the store it leaves, and the count it replies
RedisDel(store, keys, t) ==
    [store |-> {e \in store : e.key \notin keys},
     reply |-> Cardinality({e \in Unexpired(store, t) : e.key \in keys})]

\* delete(key): the store it leaves; its failure is logged, never thrown
DeletePropagating(store, up, key, t) ==
    IF up THEN [store |-> RedisDel(store, {GenerateKey(key)}, t).store, ret |-> "void", threw |-> FALSE]
    ELSE [store |-> store, ret |-> "error", threw |-> TRUE]

Delete(store, up, key, t) ==
    IF up THEN [store |-> RedisDel(store, {GenerateKey(key)}, t).store, ret |-> "void", threw |-> FALSE]
    ELSE [store |-> store, ret |-> "void", threw |-> FALSE]

\* exists(key): redis.exists replies 1, or false from the catch block
Exists(store, up, key, t) ==
    IF up THEN [ret |-> (RedisGet(store, GenerateKey(key), t) # NoText), threw |-> FALSE]
    ELSE [ret |-> FALSE, threw |-> FALSE]

\* clearByPattern(pattern): the keys found are deleted in one redis.del
\* and its reply is returned; 0 when none is found, and from the catch block
ClearByPatternAll(store, up, pattern, t) ==
    IF up THEN [store |-> {}, ret |-> Cardinality(Unexpired(store, t)), threw |-> FALSE]
    ELSE [store |-> store, ret |-> 0, threw |-> FALSE]

ClearByPattern(store, up, pattern, t) ==
    IF up
    THEN LET keys == RedisKeys(store, GenerateKey(pattern), t) IN
         IF keys = {}
         THEN [store |-> store, ret |-> 0, threw |-> FALSE]
         ELSE [store |-> RedisDel(store, keys, t).store,
               ret |-> RedisDel(store, keys, t).reply, threw |-> FALSE]
    ELSE [store |-> store, ret |-> 0, threw |-> FALSE]

\* A caller that is in no getOrSet call
Idle == [pc |-> "idle", key |-> <<>>, ttl |-> NoTtl, start |-> 0, cached |-> FALSE,
         fetches |-> 0, raised |-> FALSE, failures |-> 0, value |-> NullValue,
         storedAt |-> 0]

\* The call of caller c ends: returning ret, or rejecting
Complete(c, call, result, ret) ==
    /\ inflight' = [inflight EXCEPT ![c] = Idle]
    /\ calls' = Append(calls, [caller |-> c, key |-> call.key, ttl |-> call.ttl,
                               start |-> call.start, end |-> now,
                               cached |-> call.cached, fetches |-> call.fetches,
                               raised |-> call.raised, failures |-> call.failures,
                               storedAt |-> call.storedAt, fetched |-> call.value,
                               result |-> result, ret |-> ret])

\* getOrSet(key, fetchFunction, {ttl}) is called: it runs to its first
\* await, the redis.get inside get()
GetOrSetCall(c, key, ttl) ==
    /\ inflight[c].pc = "idle"
    /\ events < MaxEvents
    /\ events' = events + 1
    /\ inflight' = [inflight EXCEPT ![c] = [Idle EXCEPT !.pc = "get", !.key = key,
                                                        !.ttl = ttl, !.start = now]]
    /\ UNCHANGED <<now, monitorVars, omdbStatus, trending, cards, home, last, redis, redisUp, stats, calls>>
    /\ UNCHANGED schedVars

\* redis.get settles; get() returns; on a non-null value getOrSet returns
\* it, otherwise it calls fetchFunction() and awaits it
GetOrSetAfterGet(c) ==
    LET call == inflight[c]
        got == Get(redis, redisUp, call.key, now)
        failures == call.failures + (IF got.failed THEN 1 ELSE 0)
    IN  /\ call.pc = "get"
        /\ stats' = StatsAfter(stats, got)
        /\ IF got.value # NullValue
           THEN Complete(c, [call EXCEPT !.cached = TRUE, !.failures = failures,
                                         !.storedAt = got.storedAt],
                         "returned", got.value)
           ELSE /\ inflight' = [inflight EXCEPT ![c] =
                                   [call EXCEPT !.pc = "fetch", !.fetches = @ + 1,
                                                !.failures = failures]]
                /\ UNCHANGED calls
        /\ UNCHANGED <<now, events, monitorVars, omdbStatus, trending, cards, home, last, redis, redisUp>>
        /\ UNCHANGED schedVars

\* fetchFunction() settles: with a value, and getOrSet calls set() and awaits
\* its redis.setEx; or with an exception, and the catch block of getOrSet
\* calls fetchFunction() again
GetOrSetAfterFetch(c, outcome) ==
    LET call == inflight[c] IN
    /\ call.pc = "fetch"
    /\ inflight' = [inflight EXCEPT ![c] =
                       IF outcome = Throws
                       THEN [call EXCEPT !.pc = "refetch", !.raised = TRUE, !.fetches = @ + 1]
                       ELSE [call EXCEPT !.pc = "set", !.value = outcome, !.storedAt = now]]
    /\ UNCHANGED <<now, events, monitorVars, omdbStatus, trending, cards, home, last, redis, redisUp, stats, calls>>
    /\ UNCHANGED schedVars

\* redis.setEx settles (set() swallows its failure); getOrSet returns the
\* fresh value
GetOrSetAfterSet(c) ==
    LET call == inflight[c] IN
    /\ call.pc = "set"
    /\ redis' = Set(redis, redisUp, call.key, call.value, call.ttl, now)
    /\ Complete(c, [call EXCEPT !.failures = @ + (IF redisUp THEN 0 ELSE 1)],
                "returned", call.value)
    /\ UNCHANGED <<now, events, monitorVars, omdbStatus, trending, cards, home, last, redisUp, stats>>
    /\ UNCHANGED schedVars

\* The fetchFunction() called from the catch block settles: getOrSet
\* returns its value, or rejects with its exception
GetOrSetAfterRefetch(c, outcome) ==
    LET call == inflight[c] IN
    /\ call.pc = "refetch"
    /\ IF outcome = Throws
       THEN Complete(c, call, "threw", NullValue)
       ELSE Complete(c, [call EXCEPT !.value = outcome, !.storedAt = now], "returned", outcome)
    /\ UNCHANGED <<now, events, monitorVars, omdbStatus, trending, cards, home, last, redis, redisUp, stats>>
    /\ UNCHANGED schedVars

\* set(key, value, {ttl}): the call and its redis.setEx
CacheSet(key, value, ttl) ==
    /\ events < MaxEvents
    /\ events' = events + 1
    /\ redis' = Set(redis, redisUp, key, value, ttl, now)
    /\ last' = [op |-> "set", ret |-> "void", threw |-> FALSE]
    /\ UNCHANGED <<now, monitorVars, omdbStatus, trending, cards, home, redisUp, stats, inflight, calls>>
    /\ UNCHANGED schedVars

\* setWithExpiry(key, value, expirySeconds): set() with ttl: expirySeconds
SetWithExpiry(key, value, expirySeconds) ==
    /\ events < MaxEvents
    /\ events' = events + 1
    /\ redis' = Set(redis, redisUp, key, value, expirySeconds, now)
    /\ last' = [op |-> "setWithExpiry", ret |-> "void", threw |-> FALSE]
    /\ UNCHANGED <<now, monitorVars, omdbStatus, trending, cards, home, redisUp, stats, inflight, calls>>
    /\ UNCHANGED schedVars

\* get(key): the call and its redis.get
CacheGet(key) ==
    LET got == Get(redis, redisUp, key, now) IN
    /\ events < MaxEvents
    /\ events' = events + 1
    /\ stats' = StatsAfter(stats, got)
    /\ last' = [op |-> "get", ret |-> got.value, threw |-> FALSE]
    /\ UNCHANGED <<now, monitorVars, omdbStatus, trending, cards, home, redis, redisUp, inflight, calls>>
    /\ UNCHANGED schedVars

\* delete(key): the call and its redis.del
CacheDelete(key) ==
    LET done == Delete(redis, redisUp, key, now) IN
    /\ events < MaxEvents
    /\ events' = events + 1
    /\ redis' = done.store
    /\ last' = [op |-> "delete", ret |-> done.ret, threw |-> done.threw]
    /\ UNCHANGED <<now, monitorVars, omdbStatus, trending, cards, home, redisUp, stats, inflight, calls>>
    /\ UNCHANGED schedVars

\* exists(key): the call and its redis.exists
CacheExists(key) ==
    LET done == Exists(redis, redisUp, key, now) IN
    /\ events < MaxEvents
    /\ events' = events + 1
    /\ last' = [op |-> "exists", ret |-> done.ret, threw |-> done.threw]
    /\ UNCHANGED <<now, monitorVars, omdbStatus, trending, cards, home, redis, redisUp, stats, inflight, calls>>
    /\ UNCHANGED schedVars

\* clearByPattern(pattern): the call, its redis.keys and its redis.del
CacheClearByPattern(pattern) ==
    LET done == ClearByPattern(redis, redisUp, pattern, now) IN
    /\ events < MaxEvents
    /\ events' = events + 1
    /\ redis' = done.store
    /\ last' = [op |-> "clearByPattern", ret |-> done.ret, threw |-> done.threw]
    /\ UNCHANGED <<now, monitorVars, omdbStatus, trending, cards, home, redisUp, stats, inflight, calls>>
    /\ UNCHANGED schedVars

\* The expiry of a key that has no time to live
NoExpiry == 1000000000

\* The counter the server holds under a key at time t: 0 if there is none
RedisCounter(store, key, t) ==
    IF \E e \in Unexpired(store, t) : e.key = key
    THEN (CHOOSE e \in Unexpired(store, t) : e.key = key).count
    ELSE 0

\* redis.incr(key) at time t: one command of the server, which adds one to
\* the counter, an absent key counting as 0, and keeps the key's expiry
RedisIncr(store, key, t) ==
    {e \in Unexpired(store, t) : e.key # key} \cup
        {[key |-> key, text |-> "integer", count |-> RedisCounter(store, key, t) + 1,
          storedAt |-> t,
          expiresAt |-> IF \E e \in Unexpired(store, t) : e.key = key
                        THEN (CHOOSE e \in Unexpired(store, t) : e.key = key).expiresAt
                        ELSE NoExpiry]}

\* redis.expire(key, ttl) at time t
RedisExpire(store, key, ttl, t) ==
    {IF e.key = key THEN [e EXCEPT !.expiresAt = t + ttl] ELSE e : e \in Unexpired(store, t)}

\* The increment call of caller c returns ret
IncrementReturns(c, call, ret) ==
    /\ inflight' = [inflight EXCEPT ![c] = Idle]
    /\ calls' = Append(calls, [caller |-> c, op |-> "increment", key |-> call.key,
                               ttl |-> call.ttl, result |-> call.value, ret |-> ret])

\* increment(key, {ttl}) is called: it runs to its await of redis.incr
IncrementCall(c, key, ttl) ==
    /\ inflight[c].pc = "idle"
    /\ events < MaxEvents
    /\ events' = events + 1
    /\ inflight' = [inflight EXCEPT ![c] = [Idle EXCEPT !.pc = "incr", !.key = key,
                                                        !.ttl = ttl, !.value = 0]]
    /\ UNCHANGED <<now, monitorVars, omdbStatus, trending, cards, home, last, redis, redisUp, stats, calls>>
    /\ UNCHANGED schedVars

\* redis.incr settles: with its reply, after which increment awaits
\* redis.expire if options.ttl is given and returns the reply if not; or
\* with an exception, and the catch block returns 0
IncrementAfterIncr(c) ==
    LET call == inflight[c]
        result == RedisCounter(redis, GenerateKey(call.key), now) + 1
    IN  /\ call.pc = "incr"
        /\ IF ~redisUp
           THEN /\ IncrementReturns(c, call, 0)
                /\ UNCHANGED redis
           ELSE /\ redis' = RedisIncr(redis, GenerateKey(call.key), now)
                /\ IF call.ttl # NoTtl
                   THEN /\ inflight' = [inflight EXCEPT ![c] =
                                           [call EXCEPT !.pc = "expire", !.value = result]]
                        /\ UNCHANGED calls
                   ELSE IncrementReturns(c, [call EXCEPT !.value = result], result)
        /\ UNCHANGED <<now, events, monitorVars, omdbStatus, trending, cards, home, last, redisUp, stats>>
        /\ UNCHANGED schedVars

\* redis.expire settles: increment returns the reply of redis.incr, or 0
\* from the catch block
IncrementAfterExpire(c) ==
    LET call == inflight[c] IN
    /\ call.pc = "expire"
    /\ IF ~redisUp
       THEN /\ IncrementReturns(c, call, 0)
            /\ UNCHANGED redis
       ELSE /\ redis' = RedisExpire(redis, GenerateKey(call.key), call.ttl, now)
            /\ IncrementReturns(c, call, call.value)
    /\ UNCHANGED <<now, events, monitorVars, omdbStatus, trending, cards, home, last, redisUp, stats>>
    /\ UNCHANGED schedVars

\* resetStats()
ResetStats ==
    /\ stats' = [hits |-> 0, misses |-> 0]
    /\ last' = [op |-> "resetStats", ret |-> "void", threw |-> FALSE]
    /\ UNCHANGED <<now, events, monitorVars, omdbStatus, trending, cards, home, redis, redisUp, inflight, calls>>
    /\ UNCHANGED schedVars

\* Another client of the cache server stores a text under a key of the
\* application
ForeignWrite(key, text) ==
    /\ events < MaxEvents
    /\ events' = events + 1
    /\ redisUp
    /\ redis' = RedisSetEx(redis, GenerateKey(key), DefaultTTL, text, now)
    /\ last' = Void
    /\ UNCHANGED <<now, monitorVars, omdbStatus, trending, cards, home, redisUp, stats, inflight, calls>>
    /\ UNCHANGED schedVars

\* The cache server becomes unreachable, or reachable again
RedisChange ==
    /\ redisUp' = ~redisUp
    /\ UNCHANGED <<now, events, monitorVars, omdbStatus, trending, cards, home, last, redis, stats, inflight, calls>>
    /\ UNCHANGED schedVars

-----------------------------------------------------------------------------
(* SchedulerService *)

\* The registry initializeJobs builds, with the default cron expressions
JobNames == {"updateTrendingMovies", "cacheCleanup", "generateUsageReport",
             "healthCheck", "databaseMaintenance", "generateTrendingMovieCards"}

Schedules == [name \in JobNames |->
    CASE name = "updateTrendingMovies" -> "0 0 * * *"
      [] name = "cacheCleanup" -> "0 2 * * *"
      [] name = "generateUsageReport" -> "0 1 * * *"
      [] name = "healthCheck" -> "*/5 * * * *"
      [] name = "databaseMaintenance" -> "0 3 * * 0"
      [] name = "generateTrendingMovieCards" -> "0 */6 * * *"]

\* A name that is not in the registry
UnknownJob == "noSuchJob"

\* scheduleJob(name, schedule, jobFunction, enabled): the config it registers
\* and whether cron.schedule starts the task
ScheduleJob(name, schedule, enabled) ==
    [config |-> [name |-> name, schedule |-> schedule, enabled |-> enabled,
                 runCount |-> 0, errorCount |-> 0, lastRun |-> NoDate, nextRun |-> NoDate],
     task |-> enabled]

\* The services healthCheckJob polls
Dependencies == {"omdb", "llm", "database", "cache"}

\* A healthCheckJob that lets a failed poll out of its catch block
HealthCheckJobRethrowing(health) ==
    IF \E d \in Dependencies : health[d] = "throws"
    THEN "throws"
    ELSE "returns"

\* healthCheckJob(): how the body settles, health[d] being how the
\* healthCheck() of dependency d ended. A rejected poll rejects the
\* Promise.all and is caught and logged; otherwise the unhealthy services
\* are logged, or that all are healthy
HealthCheckJob(health) ==
    IF \E d \in Dependencies : health[d] = "throws"
    THEN "returns"
    ELSE LET unhealthyServices == {d \in Dependencies : health[d] # "healthy"}
         IN  IF unhealthyServices # {} THEN "returns" ELSE "returns"

\* How the body of a job can settle. healthCheckJob swallows what it
\* catches and databaseMaintenanceJob awaits nothing; the other bodies
\* rethrow what their collaborators throw. cacheCleanupJob is followed call
\* by call below.
BodyOutcomes(name) ==
    CASE name = "healthCheck" ->
             {HealthCheckJob(health) : health \in [Dependencies -> HealthOutcomes]}
      [] name = "databaseMaintenance" -> {"returns"}
      [] OTHER -> {"returns", "throws"}

\* getStats(): the figures it returns, from its catch block when the backend
\* is unreachable
GetStatsPropagating(store, up, st, t) ==
    IF up THEN [hits |-> st.hits, misses |-> st.misses,
                totalKeys |-> Cardinality(Unexpired(store, t)), threw |-> FALSE]
    ELSE [hits |-> st.hits, misses |-> st.misses, totalKeys |-> 0, threw |-> TRUE]

GetStats(store, up, st, t) ==
    IF up THEN [hits |-> st.hits, misses |-> st.misses,
                totalKeys |-> Cardinality(Unexpired(store, t)), threw |-> FALSE]
    ELSE [hits |-> st.hits, misses |-> st.misses, totalKeys |-> 0, threw |-> FALSE]

\* The wrapper's bookkeeping when the awaited body has settled
CountedTwice(config, outcome) ==
    IF outcome = "returns"
    THEN [config EXCEPT !.runCount = @ + 1]
    ELSE [config EXCEPT !.runCount = @ + 1, !.errorCount = @ + 1]

CountedSinceSuccess(config, outcome) ==
    IF outcome = "returns"
    THEN [config EXCEPT !.runCount = @ + 1, !.errorCount = 0]
    ELSE [config EXCEPT !.errorCount = @ + 1]

Counted(config, outcome) ==
    IF outcome = "returns"
    THEN [config EXCEPT !.runCount = @ + 1]
    ELSE [config EXCEPT !.errorCount = @ + 1]

\* What the wrapper hands back: the cron callback nothing, runJob true or
\* false
HandedRethrowing(via, outcome) ==
    IF outcome = "throws" THEN "throws"
    ELSE IF via = "manual" THEN "true" ELSE "void"

Handed(via, outcome) ==
    IF via = "manual" THEN (IF outcome = "returns" THEN "true" ELSE "false") ELSE "void"

\* getNextRunTime(schedule): one minute from now, whatever the schedule
NextRunDelay == 60

\* A wrapper that set config.nextRun after a manual run too
ResumedRescheduling(config, via, outcome) ==
    [Counted(config, outcome) EXCEPT !.nextRun = now + NextRunDelay]

\* The wrapper resumes: the cron callback counts and sets config.nextRun,
\* runJob counts
Resumed(config, via, outcome) ==
    IF via = "cron"
    THEN [Counted(config, outcome) EXCEPT !.nextRun = now + NextRunDelay]
    ELSE Counted(config, outcome)

\* The body of invocation inv settles and its wrapper resumes
Settle(inv, outcome) ==
    /\ jobs' = [jobs EXCEPT ![inv.job] = Resumed(@, inv.via, outcome)]
    /\ running' = running \ {inv}
    /\ last' = [op |-> "finished", name |-> inv.job, arg |-> inv.via,
                           ret |-> Handed(inv.via, outcome)]

\* The body of the named job is called and runs to its first await
InvokeWhenIdle(name, via) ==
    /\ running = {}
    /\ trending = {}
    /\ running' = running \cup
        {[id |-> events + 1, job |-> name, via |-> via,
          pc |-> IF name = "cacheCleanup" THEN "getStats" ELSE "body"]}

Invoke(name, via) ==
    running' = running \cup
        {[id |-> events + 1, job |-> name, via |-> via,
          pc |-> IF name = "cacheCleanup" THEN "getStats" ELSE "body"]}

\* this.jobs.get(name): the config registered under the name, or undefined
Undefined == [name |-> "undefined"]

JobsGetAny(name) ==
    IF name \in DOMAIN jobs THEN jobs[name] ELSE jobs["healthCheck"]

JobsGet(name) ==
    IF name \in DOMAIN jobs THEN jobs[name] ELSE Undefined

\* The names runJob has a job function for
JobFunctions == JobNames

\* The cron task of a job fires its callback
CronTick(name) ==
    /\ events < MaxEvents
    /\ tasks[name]
    /\ events' = events + 1
    /\ IF ~jobs[name].enabled
       THEN UNCHANGED <<running, jobs>>
       ELSE /\ Invoke(name, "cron")
            /\ jobs' = [jobs EXCEPT ![name].lastRun = now]
    /\ last' = [op |-> "tick", name |-> name, arg |-> "cron", ret |-> "void"]
    /\ UNCHANGED <<now, monitorVars, omdbStatus, trending, cards, home, cacheVars, tasks>>

\* runJob(name), up to its await of the job function
RunJob(name) ==
    /\ events < MaxEvents
    /\ events' = events + 1
    /\ IF JobsGet(name) = Undefined \/ name \notin JobFunctions
       THEN /\ last' = [op |-> "runJob", name |-> name, arg |-> "manual", ret |-> "false"]
            /\ UNCHANGED running
       ELSE /\ last' = [op |-> "runJob", name |-> name, arg |-> "manual", ret |-> "pending"]
            /\ Invoke(name, "manual")
    /\ UNCHANGED <<now, monitorVars, omdbStatus, trending, cards, home, cacheVars, jobs, tasks>>

\* The body of a job other than cacheCleanup settles
BodySettles(inv, outcome) ==
    /\ inv \in running
    /\ inv.pc = "body"
    /\ outcome \in BodyOutcomes(inv.job)
    /\ Settle(inv, outcome)
    /\ UNCHANGED <<now, events, monitorVars, omdbStatus, trending, cards, home, cacheVars, tasks>>

\* cacheCleanupJob, one awaited cache call at a time: getStats,
\* clearByPattern('temp:*'), clearByPattern('search:*'), getStats; a call
\* that throws takes the body to its catch block, which rethrows
CacheCleanupStep(inv) ==
    LET before == GetStats(redis, redisUp, stats, now)
        temp == ClearByPattern(redis, redisUp, <<"temp:", "*">>, now)
        search == ClearByPattern(redis, redisUp, <<"search:", "*">>, now)
        after == GetStats(redis, redisUp, stats, now)
        moveTo(pc) == running' = (running \ {inv}) \cup {[inv EXCEPT !.pc = pc]}
    IN  /\ inv \in running
        /\ inv.pc \in {"getStats", "clearTemp", "clearSearch", "newStats"}
        /\ CASE inv.pc = "getStats" ->
                  /\ UNCHANGED redis
                  /\ IF before.threw
                     THEN Settle(inv, "throws")
                     ELSE moveTo("clearTemp") /\ UNCHANGED <<jobs, last>>
             [] inv.pc = "clearTemp" ->
                  /\ redis' = temp.store
                  /\ IF temp.threw
                     THEN Settle(inv, "throws")
                     ELSE moveTo("clearSearch") /\ UNCHANGED <<jobs, last>>
             [] inv.pc = "clearSearch" ->
                  /\ redis' = search.store
                  /\ IF search.threw
                     THEN Settle(inv, "throws")
                     ELSE moveTo("newStats") /\ UNCHANGED <<jobs, last>>
             [] inv.pc = "newStats" ->
                  /\ UNCHANGED redis
                  /\ Settle(inv, IF after.threw THEN "throws" ELSE "returns")
        /\ UNCHANGED <<now, events, monitorVars, omdbStatus, trending, cards, home,
                       redisUp, stats, inflight, calls, tasks>>

\* generateTrendingMovieCardsJob: cards are generated batchSize movies at a
\* time, with a pause, in seconds, after a batch that is not the last
BatchSize == 5
BatchDelay == 2

\* The trending movies of the card job, numbered by rank, and those of them
\* that have a card before any run: tables in which 0, 4, 5, 6 and 11
\* movies lack a card
CardTables == {<<2, {1, 2}>>, <<5, {2}>>, <<6, {2}>>, <<7, {2}>>, <<12, {2}>>}

\* databaseService.getTrendingMovies(20): the movies of the table by rank
RECURSIVE Ranked(_)
Ranked(ids) ==
    IF ids = {} THEN <<>>
    ELSE LET first == CHOOSE m \in ids : \A other \in ids : m <= other
         IN  <<first>> \o Ranked(ids \ {first})

TrendingMovies(rows) == Ranked({r.movieId : r \in rows})

\* moviesNeedingCards: the movies for which getLLMMovieCard finds no card
MoviesNeedingCardsAll(list, have) == list

MoviesNeedingCards(list, have) == SelectSeq(list, LAMBDA m : m \notin have)

\* How many cards of a batch can be saved when a save throws
SavedBeforeThrow(size) == {0, size - 1}

\* How a batch can end: every card generated and saved, the generator
\* throwing, or a save throwing
BatchOutcomes == {"saved", "generateThrows", "saveThrows"}

\* moviesNeedingCards.slice(i, i + batchSize).length
BatchLength(i, n) == IF i + BatchSize < n THEN BatchSize ELSE n - i

\* The loop reaches llmService.generateMovieCardsBatch for the batch at i
Generating(inv, i, needing) ==
    [id |-> inv.id, job |-> inv.job, via |-> inv.via, pc |-> "generating",
     i |-> i, n |-> Len(needing), size |-> BatchLength(i, Len(needing)),
     since |-> now, needing |-> needing]

\* batch: moviesNeedingCards.slice(i, i + batchSize)
Batch(inv) == SubSeq(inv.needing, inv.i + 1, inv.i + inv.size)

\* The loop goes on from the batch at inv.i: the next batch if there is
\* one, the end of the body if not
NextBatch(inv) ==
    IF inv.i + BatchSize < inv.n
    THEN /\ running' = (running \ {inv}) \cup {Generating(inv, inv.i + BatchSize, inv.needing)}
         /\ UNCHANGED <<jobs, last>>
    ELSE Settle(inv, "returns")

\* The body has the trending movies and their cards looked up: it throws if
\* the data store does, returns if no movie needs a card, and calls the
\* generator for the first batch otherwise
CardBackfillLooksUp(inv, threw) ==
    LET moviesNeedingCards == MoviesNeedingCards(TrendingMovies(trending), cards)
    IN  /\ inv \in running
        /\ inv.job = "generateTrendingMovieCards"
        /\ inv.pc = "body"
        /\ IF threw THEN Settle(inv, "throws")
           ELSE IF Len(moviesNeedingCards) = 0 THEN Settle(inv, "returns")
           ELSE /\ running' = (running \ {inv}) \cup {Generating(inv, 0, moviesNeedingCards)}
                /\ UNCHANGED <<jobs, last>>
        /\ UNCHANGED <<now, events, monitorVars, omdbStatus, trending, cards, home, cacheVars, tasks>>

\* The batch in hand ends: saved to the last card, the body pauses if more
\* batches follow; a throw lands in the catch inside the loop, which goes on
CardBackfillBatchEnds(inv, outcome) ==
    /\ inv \in running
    /\ inv.pc = "generating"
    /\ IF outcome = "saved" /\ inv.i + BatchSize < inv.n
       THEN /\ running' = (running \ {inv}) \cup {[inv EXCEPT !.pc = "delay", !.since = now]}
            /\ UNCHANGED <<jobs, last>>
       ELSE NextBatch(inv)
    /\ \E saved \in (CASE outcome = "saved" -> {inv.size}
                       [] outcome = "generateThrows" -> {0}
                       [] outcome = "saveThrows" -> SavedBeforeThrow(inv.size)) :
          cards' = cards \cup {Batch(inv)[k] : k \in 1..saved}
    /\ UNCHANGED <<now, events, monitorVars, omdbStatus, trending, home, cacheVars, tasks>>

\* The pause between batches is over
CardBackfillDelayEnds(inv) ==
    /\ inv \in running
    /\ inv.pc = "delay"
    /\ now >= inv.since + BatchDelay
    /\ NextBatch(inv)
    /\ UNCHANGED <<now, events, monitorVars, omdbStatus, trending, cards, home, cacheVars, tasks>>

\* The movies the provider can rank as trending
Movies == {"tt1", "tt2"}

\* A row of trending_movies: its id, `trending_<imdbId>_<Date.now()>` with
\* the call standing for the instant, and its movie_id; movie_id is unique
\* per trend_date and a run falls within one date
Row(movie, call) == [id |-> <<"trending", movie, call>>, movieId |-> movie]

\* The rows an earlier run has left in the table
PreviousRows == {Row("tt0", 0)}

\* trendingData: one row per saved movie
TrendingData(inv, savedMovies) == {Row(movie, inv.id) : movie \in savedMovies}

\* The saveTrendingMovies calls whose transaction is open
OpenTransactions == {inv \in running : inv.pc \in {"delete", "deleteWaits", "insert", "commit"}}

\* Another open transaction has deleted one of these rows and holds its lock
LockedByOther(inv, rows) ==
    \E other \in OpenTransactions \ {inv} : other.gone \cap rows # {}

\* Another open transaction has inserted, uncommitted, a movie of these rows
InsertedByOther(inv, rows) ==
    \E other \in OpenTransactions \ {inv} :
        \E r \in rows, q \in other.put : r.movieId = q.movieId

\* A committed row this transaction has not deleted holds a movie of these
UniqueViolation(inv, rows) ==
    \E r \in rows, q \in trending \ inv.gone : r.movieId = q.movieId

\* updateTrendingMoviesJob: omdbService.getTrendingMovies() settles. The
\* body rethrows what it throws and returns on an empty list.
TrendingFetched(inv, list, threw) ==
    /\ inv \in running
    /\ inv.job = "updateTrendingMovies"
    /\ inv.pc = "body"
    /\ IF threw THEN Settle(inv, "throws")
       ELSE IF list = {} THEN Settle(inv, "returns")
       ELSE /\ running' = (running \ {inv}) \cup
                   {[id |-> inv.id, job |-> inv.job, via |-> inv.via, pc |-> "items",
                     fetched |-> list, rows |-> {}, snapshot |-> {}, gone |-> {}, put |-> {}]}
            /\ UNCHANGED <<jobs, last>>
    /\ UNCHANGED <<now, events, monitorVars, omdbStatus, trending, cards, home, cacheVars, tasks>>

\* The loop over the fetched movies is through: savedMovies holds those
\* found or fetched and saved, a movie whose lookup, fetch or save threw
\* being skipped; saveTrendingMovies is called and asks the pool for a client
TrendingItemsSaved(inv, savedMovies) ==
    /\ inv \in running
    /\ inv.pc = "items"
    /\ savedMovies \subseteq inv.fetched
    /\ running' = (running \ {inv}) \cup
           {[inv EXCEPT !.pc = "begin", !.rows = TrendingData(inv, savedMovies)]}
    /\ UNCHANGED <<now, events, monitorVars, omdbStatus, trending, cards, home, cacheVars, tasks, jobs, last>>

\* COMMIT: the rows the transaction deleted go and the rows it inserted come,
\* in one step for every other connection
ReplacedKeeping(table, inv) == table \cup inv.put

Replaced(table, inv) == (table \ inv.gone) \cup inv.put

\* A statement of saveTrendingMovies fails: its catch block rolls back and
\* rethrows, and so does the catch block of the job body
SaveFailsSwallowed(inv) ==
    /\ running' = (running \ {inv}) \cup {[inv EXCEPT !.pc = "invalidate"]}
    /\ UNCHANGED <<jobs, last>>

SaveFails(inv) == Settle(inv, "throws")

\* saveTrendingMovies, one awaited statement at a time: the client and
\* BEGIN, DELETE FROM trending_movies, the INSERTs, COMMIT. A statement that
\* fails takes the call to its catch block, which rolls back and rethrows,
\* and the job body rethrows in turn. The transaction runs at the default
\* isolation level: a statement sees the rows committed when it starts, a
\* DELETE waits for a row another open transaction has deleted and skips it
\* if that transaction commits, an INSERT waits for an uncommitted row with
\* its unique key.
SaveTrendingStep(inv, ok) ==
    LET moveTo(next) == running' = (running \ {inv}) \cup {next}
    IN  /\ inv \in running
        /\ inv.pc \in {"begin", "delete", "deleteWaits", "insert", "commit"}
        /\ CASE ~ok ->
                  /\ inv.pc # "deleteWaits"
                  /\ SaveFails(inv)
                  /\ UNCHANGED trending
             [] ok /\ inv.pc = "begin" ->
                  /\ moveTo([inv EXCEPT !.pc = "delete"])
                  /\ UNCHANGED <<jobs, last, trending>>
             [] ok /\ inv.pc = "delete" ->
                  /\ IF LockedByOther(inv, trending)
                     THEN moveTo([inv EXCEPT !.pc = "deleteWaits", !.snapshot = trending])
                     ELSE moveTo([inv EXCEPT !.pc = "insert", !.gone = trending])
                  /\ UNCHANGED <<jobs, last, trending>>
             [] ok /\ inv.pc = "deleteWaits" ->
                  /\ ~LockedByOther(inv, inv.snapshot)
                  /\ moveTo([inv EXCEPT !.pc = "insert", !.gone = inv.snapshot \cap trending])
                  /\ UNCHANGED <<jobs, last, trending>>
             [] ok /\ inv.pc = "insert" ->
                  /\ ~InsertedByOther(inv, inv.rows)
                  /\ ~LockedByOther(inv, {q \in trending \ inv.gone :
                                            \E r \in inv.rows : r.movieId = q.movieId})
                  /\ IF UniqueViolation(inv, inv.rows)
                     THEN SaveFails(inv)
                     ELSE moveTo([inv EXCEPT !.pc = "commit", !.put = inv.rows])
                          /\ UNCHANGED <<jobs, last>>
                  /\ UNCHANGED trending
             [] ok /\ inv.pc = "commit" ->
                  /\ trending' = Replaced(trending, inv)
                  /\ moveTo([inv EXCEPT !.pc = "invalidate"])
                  /\ UNCHANGED <<jobs, last>>
        /\ UNCHANGED <<now, events, monitorVars, omdbStatus, cards, home, cacheVars, tasks>>

\* saveTrendingMovies has returned: cacheService.clearByPattern('trending:*')
\* and the body returns
TrendingInvalidates(inv) ==
    /\ inv \in running
    /\ inv.pc = "invalidate"
    /\ redis' = ClearByPattern(redis, redisUp, <<"trending:", "*">>, now).store
    /\ Settle(inv, "returns")
    /\ UNCHANGED <<now, events, monitorVars, omdbStatus, trending, cards, home,
                   redisUp, stats, inflight, calls, tasks>>

\* databaseService.getTrendingMovies(limit): one query of the pool, which
\* sees the rows committed when it runs
ReadTrending ==
    /\ last' = [op |-> "getTrendingMovies", ret |-> {r.movieId : r \in trending}]
    /\ UNCHANGED <<now, events, monitorVars, omdbStatus, trending, cards, home, cacheVars, schedVars>>

\* { movies: trendingMovies }: the result of a trending request, named by
\* the movies the table held when it was read
Result(rows) ==
    LET ids == {r.movieId : r \in rows}
    IN  CASE ids = {"tt0"} -> "tt0"
          [] ids = {"tt1"} -> "tt1"
          [] ids = {"tt2"} -> "tt2"
          [] ids = {"tt1", "tt2"} -> "tt1,tt2"

\* `trending:${limit}:${includeCards}` of a request with the default limit
\* and no cards, and the ttl its result is cached with
TrendingKey == <<"trending:", "20:false">>
TrendingTtl == 900

\* res.json(...) of the request of caller c
Responds(c, call, data, cached) ==
    /\ inflight' = [inflight EXCEPT ![c] = Idle]
    /\ calls' = Append(calls, [caller |-> c, op |-> "getTrendingMovies",
                               ret |-> data, cached |-> cached])

\* GET /api/movies/trending arrives: the handler runs to its await of
\* cacheService.get
TrendingRequest(c) ==
    /\ inflight[c].pc = "idle"
    /\ events < MaxEvents
    /\ events' = events + 1
    /\ inflight' = [inflight EXCEPT ![c] = [Idle EXCEPT !.pc = "get", !.key = TrendingKey,
                                                        !.ttl = TrendingTtl, !.start = now]]
    /\ UNCHANGED <<now, monitorVars, omdbStatus, trending, cards, home, last, redis, redisUp, stats, calls>>
    /\ UNCHANGED schedVars

\* cacheService.get settles: a cached result is sent; otherwise the handler
\* awaits databaseService.getTrendingMovies
TrendingRequestAfterGet(c) ==
    LET call == inflight[c]
        got == Get(redis, redisUp, call.key, now)
    IN  /\ call.pc = "get"
        /\ stats' = StatsAfter(stats, got)
        /\ IF got.value # NullValue
           THEN Responds(c, call, got.value, TRUE)
           ELSE /\ inflight' = [inflight EXCEPT ![c] = [call EXCEPT !.pc = "read"]]
                /\ UNCHANGED calls
        /\ UNCHANGED <<now, events, monitorVars, omdbStatus, trending, cards, home, last, redis, redisUp>>
        /\ UNCHANGED schedVars

\* databaseService.getTrendingMovies settles with the rows committed at
\* this moment, and the handler awaits cacheService.set; or it throws, and
\* the handler answers with the error. The table is not empty in the runs
\* explored, so the branch that fills an empty table from the provider is
\* not taken.
TrendingRequestAfterRead(c, threw) ==
    LET call == inflight[c] IN
    /\ call.pc = "read"
    /\ trending # {}
    /\ IF threw
       THEN Responds(c, call, Throws, FALSE)
       ELSE /\ inflight' = [inflight EXCEPT ![c] =
                               [call EXCEPT !.pc = "set", !.value = Result(trending),
                                            !.storedAt = now]]
            /\ UNCHANGED calls
    /\ UNCHANGED <<now, events, monitorVars, omdbStatus, trending, cards, home, last, redis, redisUp, stats>>
    /\ UNCHANGED schedVars

\* cacheService.set settles: the result is cached for 15 minutes and sent
TrendingRequestAfterSet(c) ==
    LET call == inflight[c] IN
    /\ call.pc = "set"
    /\ redis' = Set(redis, redisUp, call.key, call.value, call.ttl, now)
    /\ Responds(c, call, call.value, FALSE)
    /\ UNCHANGED <<now, events, monitorVars, omdbStatus, trending, cards, home, last, redisUp, stats>>
    /\ UNCHANGED schedVars

\* job.config.enabled = enabled
ToggledAfresh(config, enabled) ==
    [config EXCEPT !.enabled = enabled, !.runCount = 0, !.errorCount = 0]

Toggled(config, enabled) == [config EXCEPT !.enabled = enabled]

\* toggleJob(name, enabled)
ToggleJob(name, enabled) ==
    /\ events < MaxEvents
    /\ events' = events + 1
    /\ IF JobsGet(name) = Undefined
       THEN /\ last' = [op |-> "toggleJob", name |-> name, enabled |-> enabled, ret |-> "false"]
            /\ UNCHANGED <<jobs, tasks>>
       ELSE /\ jobs' = [jobs EXCEPT ![JobsGet(name).name] = Toggled(@, enabled)]
            /\ tasks' = [tasks EXCEPT ![JobsGet(name).name] = enabled]
            /\ last' = [op |-> "toggleJob", name |-> name, enabled |-> enabled, ret |-> "true",
                        was |-> JobsGet(name).enabled]
    /\ UNCHANGED <<now, monitorVars, omdbStatus, trending, cards, home, cacheVars, running>>

\* start(): the task of every enabled job is started
Start ==
    /\ events < MaxEvents
    /\ events' = events + 1
    /\ tasks' = [name \in DOMAIN jobs |-> tasks[name] \/ jobs[name].enabled]
    /\ last' = [op |-> "start", name |-> "", arg |-> "", ret |-> "void"]
    /\ UNCHANGED <<now, monitorVars, omdbStatus, trending, cards, home, cacheVars, jobs, running>>

\* stop(): the task of every job is stopped
Stop ==
    /\ events < MaxEvents
    /\ events' = events + 1
    /\ tasks' = [name \in DOMAIN jobs |-> FALSE]
    /\ last' = [op |-> "stop", name |-> "", arg |-> "", ret |-> "void"]
    /\ UNCHANGED <<now, monitorVars, omdbStatus, trending, cards, home, cacheVars, jobs, running>>

-----------------------------------------------------------------------------
(* The clock and the environment *)

\* The movie-metadata provider goes down or comes back
OmdbChange ==
    /\ omdbStatus' = IF omdbStatus = "healthy" THEN "unhealthy" ELSE "healthy"
    /\ last' = Void
    /\ UNCHANGED <<now, events, monitorVars, trending, cards, home>>
    /\ UNCHANGED schedVars
    /\ UNCHANGED cacheVars

Tick(d) ==
    /\ events < MaxEvents
    /\ now' = now + d
    /\ events' = events + 1
    /\ last' = Void
    /\ UNCHANGED <<monitorVars, omdbStatus, trending, cards, home>>
    /\ UNCHANGED schedVars
    /\ UNCHANGED cacheVars

\* The calls of handleSearch followed
MaxSearches == 4

\* What the search bar hands to onSearch
Queries == {"", " ", "Alien", "alien", "heat"}

\* String.prototype.trim() and toLowerCase() on the queries
Trim(query) == IF query = " " THEN "" ELSE query

ToLowerCase(query) == IF query = "Alien" THEN "alien" ELSE query

\* results.results of the search API for a query, letter case ignored
SearchMovies(query) ==
    CASE ToLowerCase(query) = "alien" -> {"Alien", "Aliens"}
      [] ToLowerCase(query) = "heat" -> {"Heat"}
      [] OTHER -> {}

\* No controller: activeSearchController.current is null
NoController == 0

\* The home page as it mounts
HomePage == [searchResults |-> {}, isSearching |-> FALSE, searchQuery |-> "",
             searchCache |-> {}, activeSearchController |-> NoController,
             requests |-> {}, searches |-> 0]

\* searchCache.current.has(key), .get(key) and .set(key, results)
SearchCacheHas(cache, key) == \E e \in cache : e[1] = key

SearchCacheGet(cache, key) == (CHOOSE e \in cache : e[1] = key)[2]

SearchCacheSet(cache, key, results) == {e \in cache : e[1] # key} \cup {<<key, results>>}

\* activeSearchController.current?.abort(): the signal of the request of
\* the active controller, if there is one still awaited, is aborted
Abort(pending, controller) ==
    {IF r.id = controller THEN [r EXCEPT !.aborted = TRUE] ELSE r : r \in pending}

\* handleSearch(query), up to its return or its await of
\* MovieAPI.searchMovies
HandleSearch(query) ==
    LET trimmedQuery == Trim(query)
        normalizedQuery == ToLowerCase(trimmedQuery)
        controller == home.searches + 1
        aborted == Abort(home.requests, home.activeSearchController)
    IN  /\ home.searches < MaxSearches
        /\ home' =
             IF trimmedQuery = ""
             THEN [home EXCEPT !.searchQuery = query, !.searchResults = {},
                               !.isSearching = FALSE, !.requests = aborted,
                               !.activeSearchController = NoController,
                               !.searches = controller]
             ELSE IF SearchCacheHas(home.searchCache, normalizedQuery)
             THEN [home EXCEPT !.searchQuery = query,
                               !.searchResults = SearchCacheGet(home.searchCache, normalizedQuery),
                               !.isSearching = FALSE,
                               !.searches = controller]
             ELSE [home EXCEPT !.searchQuery = query, !.isSearching = TRUE,
                               !.requests = aborted \cup
                                   {[id |-> controller, query |-> trimmedQuery,
                                     aborted |-> FALSE]},
                               !.activeSearchController = controller,
                               !.searches = controller]
        /\ last' = [op |-> "handleSearch", name |-> query, ret |-> "void"]
        /\ UNCHANGED <<now, events, monitorVars, omdbStatus, trending, cards>>
        /\ UNCHANGED schedVars
        /\ UNCHANGED cacheVars

\* How an awaited MovieAPI.searchMovies can end
SearchOutcomes == {"results", "throws"}

\* handleSearch resumes after its await, the request r having settled
SearchSettles(r, outcome) ==
    LET results == SearchMovies(r.query)
        left == home.requests \ {r}
    IN  /\ r \in home.requests
        /\ outcome \in SearchOutcomes
        /\ home' =
             IF home.activeSearchController # r.id \/ r.aborted
             THEN [home EXCEPT !.requests = left]
             ELSE IF outcome = "results"
             THEN [home EXCEPT !.searchCache = SearchCacheSet(@, ToLowerCase(r.query), results),
                               !.searchResults = results,
                               !.isSearching = FALSE,
                               !.activeSearchController = NoController,
                               !.requests = left]
             ELSE [home EXCEPT !.searchResults = {},
                               !.isSearching = FALSE,
                               !.activeSearchController = NoController,
                               !.requests = left]
        /\ last' = [op |-> "searchSettles", name |-> r.query, ret |-> outcome]
        /\ UNCHANGED <<now, events, monitorVars, omdbStatus, trending, cards>>
        /\ UNCHANGED schedVars
        /\ UNCHANGED cacheVars

-----------------------------------------------------------------------------

Init ==
    /\ now = 0
    /\ events = 0
    /\ requests = <<>>
    /\ errors = <<>>
    /\ systemMetrics = <<>>
    /\ alerts = {}
    /\ omdbStatus = "healthy"
    /\ last = Void
    /\ redis = {}
    /\ redisUp = TRUE
    /\ stats = [hits |-> 0, misses |-> 0]
    /\ inflight = [c \in Callers |-> Idle]
    /\ calls = <<>>
    /\ jobs = [name \in JobNames |-> ScheduleJob(name, Schedules[name], TRUE).config]
    /\ tasks = [name \in JobNames |-> ScheduleJob(name, Schedules[name], TRUE).task]
    /\ running = {}
    /\ trending = {}
    /\ cards = {}
    /\ home = HomePage

Next ==
    \/ \E d \in MonitorSteps : Tick(d)
    \/ \E e \in Endpoints, rt \in ResponseTimes, st \in Statuses : RecordRequest(e, rt, st)
    \/ \E t \in ErrorTypes, msg \in ErrorMessages : RecordError(t, msg)
    \/ \E r \in Readings : CollectSystemMetrics(r.cpu, r.memory, r.load)
    \/ CheckAlerts
    \/ CleanOldMetrics
    \/ \E id \in AlertIds \cup {UnknownAlertId} : ResolveAlert(id)
    \/ \E db \in HealthOutcomes, c \in HealthOutcomes : GetHealthStatus(db, c)

\* The monitor alone
Spec == Init /\ [][Next]_vars

NextSearch ==
    \/ \E query \in Queries : HandleSearch(query)
    \/ \E r \in home.requests, outcome \in SearchOutcomes : SearchSettles(r, outcome)

\* The home page: searches submitted and their requests settling
SpecSearch == Init /\ [][NextSearch]_vars

NextWithProvider ==
    \/ Next
    \/ OmdbChange

\* The monitor and the movie-metadata provider it runs beside
SpecProvider == Init /\ [][NextWithProvider]_vars

NextCache ==
    \/ \E d \in CacheSteps : Tick(d)
    \/ \E c \in Callers, key \in Keys, ttl \in TtlOptions : GetOrSetCall(c, key, ttl)
    \/ \E c \in Callers : GetOrSetAfterGet(c)
    \/ \E c \in Callers, outcome \in FetchOutcomes : GetOrSetAfterFetch(c, outcome)
    \/ \E c \in Callers : GetOrSetAfterSet(c)
    \/ \E c \in Callers, outcome \in FetchOutcomes : GetOrSetAfterRefetch(c, outcome)
    \/ \E key \in Keys, value \in Values, ttl \in TtlOptions : CacheSet(key, value, ttl)
    \/ \E key \in Keys, value \in Values, ttl \in TtlOptions : SetWithExpiry(key, value, ttl)
    \/ RedisChange

\* The cache-aside layer, its callers and the cache server
SpecCache == Init /\ [][NextCache]_vars

NextCacheOps ==
    \/ \E d \in CacheSteps : Tick(d)
    \/ \E key \in CacheKeys, value \in StoredValues, ttl \in TtlOptions : CacheSet(key, value, ttl)
    \/ \E key \in CacheKeys : CacheGet(key)
    \/ \E key \in CacheKeys : CacheDelete(key)
    \/ \E key \in CacheKeys : CacheExists(key)
    \/ \E pattern \in Patterns : CacheClearByPattern(pattern)
    \/ \E c \in Callers, key \in Keys, ttl \in TtlOptions : GetOrSetCall(c, key, ttl)
    \/ \E c \in Callers : GetOrSetAfterGet(c)
    \/ \E c \in Callers, outcome \in FetchOutcomes : GetOrSetAfterFetch(c, outcome)
    \/ \E c \in Callers : GetOrSetAfterSet(c)
    \/ \E c \in Callers, outcome \in FetchOutcomes : GetOrSetAfterRefetch(c, outcome)
    \/ RedisChange

\* The operations of the cache store, over the namespaces of keys
SpecCacheOps == Init /\ [][NextCacheOps]_vars

NextStats ==
    \/ \E key \in Keys, value \in StoredValues, ttl \in TtlOptions : CacheSet(key, value, ttl)
    \/ \E key \in Keys : ForeignWrite(key, Garbled)
    \/ \E key \in Keys : CacheGet(key)
    \/ \E c \in Callers, key \in Keys, ttl \in TtlOptions : GetOrSetCall(c, key, ttl)
    \/ \E c \in Callers : GetOrSetAfterGet(c)
    \/ \E c \in Callers, outcome \in FetchOutcomes : GetOrSetAfterFetch(c, outcome)
    \/ \E c \in Callers : GetOrSetAfterSet(c)
    \/ \E c \in Callers, outcome \in FetchOutcomes : GetOrSetAfterRefetch(c, outcome)
    \/ ResetStats
    \/ RedisChange

\* get() and the hit and miss counters, with a text that is not JSON in reach
SpecStats == Init /\ [][NextStats]_vars

\* The callers whose getOrSet calls overlap
Overlapping == {"c1", "c2"}

\* The process with an empty cache and two callers idle
InitOverlap ==
    /\ now = 0
    /\ events = 0
    /\ requests = <<>>
    /\ errors = <<>>
    /\ systemMetrics = <<>>
    /\ alerts = {}
    /\ omdbStatus = "healthy"
    /\ last = Void
    /\ redis = {}
    /\ redisUp = TRUE
    /\ stats = [hits |-> 0, misses |-> 0]
    /\ inflight = [c \in Overlapping |-> Idle]
    /\ calls = <<>>
    /\ jobs = [name \in JobNames |-> ScheduleJob(name, Schedules[name], TRUE).config]
    /\ tasks = [name \in JobNames |-> ScheduleJob(name, Schedules[name], TRUE).task]
    /\ running = {}
    /\ trending = {}
    /\ cards = {}
    /\ home = HomePage

NextOverlap ==
    \/ \E c \in Overlapping, key \in Keys, ttl \in TtlOptions : GetOrSetCall(c, key, ttl)
    \/ \E c \in Overlapping : GetOrSetAfterGet(c)
    \/ \E c \in Overlapping, outcome \in FetchOutcomes : GetOrSetAfterFetch(c, outcome)
    \/ \E c \in Overlapping : GetOrSetAfterSet(c)
    \/ \E c \in Overlapping, outcome \in FetchOutcomes : GetOrSetAfterRefetch(c, outcome)

\* getOrSet calls of two callers on one key, with a working cache server
SpecOverlap == InitOverlap /\ [][NextOverlap]_vars

\* The callers whose increment calls overlap, and the key they count under
Counting == {"c1", "c2", "c3"}
CounterKeys == {<<"temp:", "visits">>}

\* The process with no counter in the cache and the callers idle
InitIncrement ==
    /\ now = 0
    /\ events = 0
    /\ requests = <<>>
    /\ errors = <<>>
    /\ systemMetrics = <<>>
    /\ alerts = {}
    /\ omdbStatus = "healthy"
    /\ last = Void
    /\ redis = {}
    /\ redisUp = TRUE
    /\ stats = [hits |-> 0, misses |-> 0]
    /\ inflight = [c \in Counting |-> Idle]
    /\ calls = <<>>
    /\ jobs = [name \in JobNames |-> ScheduleJob(name, Schedules[name], TRUE).config]
    /\ tasks = [name \in JobNames |-> ScheduleJob(name, Schedules[name], TRUE).task]
    /\ running = {}
    /\ trending = {}
    /\ cards = {}
    /\ home = HomePage

NextIncrement ==
    \/ \E c \in Counting, key \in CounterKeys, ttl \in TtlOptions : IncrementCall(c, key, ttl)
    \/ \E c \in Counting : IncrementAfterIncr(c)
    \/ \E c \in Counting : IncrementAfterExpire(c)
    \/ RedisChange

\* increment() calls of several callers on one key, overlapping
SpecIncrement == InitIncrement /\ [][NextIncrement]_vars

NextScheduler ==
    \/ \E name \in JobNames : CronTick(name)
    \/ \E name \in JobNames \cup {UnknownJob} : RunJob(name)
    \/ \E inv \in running, outcome \in {"returns", "throws"} : BodySettles(inv, outcome)
    \/ \E inv \in running : CacheCleanupStep(inv)
    \/ \E name \in JobNames \cup {UnknownJob}, enabled \in BOOLEAN : ToggleJob(name, enabled)
    \/ Start
    \/ Stop
    \/ \E key \in CacheKeys, value \in StoredValues, ttl \in TtlOptions : CacheSet(key, value, ttl)
    \/ RedisChange

\* The scheduler, its jobs and the cache server the janitor clears
SpecScheduler == Init /\ [][NextScheduler]_vars

\* What a monitor that has been up for a while has recorded: a request and
\* an error a second, none slow, and samples under every threshold
PastRequest(i) == [timestamp |-> i, responseTime |-> 1000, status |-> 200,
                   endpoint |-> "/api/movies"]
PastError(i) == [timestamp |-> i, type |-> "database", message |-> "timeout"]
PastSample(i) ==
    IF i % 2 = 0 THEN [cpu |-> 0, memory |-> 50, load |-> 2, cores |-> Cores]
    ELSE [cpu |-> 80, memory |-> 85, load |-> 0, cores |-> Cores]

\* The alert those errors have left: raised by the first, merged by the last
PastAlerts ==
    CreateAlert(CreateAlert({}, ErrorAlertId("database"), "error",
                            Message("Error occurred", <<>>, "timeout"),
                            [type |-> "database"], 1),
                ErrorAlertId("database"), "error",
                Message("Error occurred", <<>>, "timeout"),
                [type |-> "database"], ErrorsCap)

\* The monitor after RequestsCap seconds of that: the request buffer one
\* short of its cap, the error and sample buffers full
InitBuffers ==
    /\ now = RequestsCap
    /\ events = 0
    /\ requests = [i \in 1..(RequestsCap - 1) |-> PastRequest(i)]
    /\ errors = [i \in 1..ErrorsCap |-> PastError(i)]
    /\ systemMetrics = [i \in 1..SystemMetricsCap |-> PastSample(i)]
    /\ alerts = PastAlerts
    /\ omdbStatus = "healthy"
    /\ last = Void
    /\ redis = {}
    /\ redisUp = TRUE
    /\ stats = [hits |-> 0, misses |-> 0]
    /\ inflight = [c \in Callers |-> Idle]
    /\ calls = <<>>
    /\ jobs = [name \in JobNames |-> ScheduleJob(name, Schedules[name], TRUE).config]
    /\ tasks = [name \in JobNames |-> ScheduleJob(name, Schedules[name], TRUE).task]
    /\ running = {}
    /\ trending = {}
    /\ cards = {}
    /\ home = HomePage

NextBuffers ==
    \/ \E d \in MonitorSteps : Tick(d)
    \/ \E e \in Endpoints, rt \in ResponseTimes, st \in Statuses : RecordRequest(e, rt, st)
    \/ \E t \in ErrorTypes, msg \in ErrorMessages : RecordError(t, msg)
    \/ \E r \in Readings : CollectSystemMetrics(r.cpu, r.memory, r.load)

\* The recording operations of a monitor whose buffers are at their caps
SpecBuffers == InitBuffers /\ [][NextBuffers]_vars

\* How many requests the monitor has recorded when the run starts
WindowSizes == {0, 1, 20, 99, 100}

\* How far the clock moves between calls of getPerformanceMetrics
PerformanceSteps == {60, 3550}

\* The i-th of those requests, recorded at second i: latencies in no order,
\* none over the response-time threshold
PastLatency(i) == [timestamp |-> i, responseTime |-> ((i * 37) % 101) * 10,
                   status |-> 200, endpoint |-> "/api/movies"]

\* A monitor that has recorded a request a second for n seconds
InitPerformance ==
    /\ now = 100
    /\ events = 0
    /\ \E n \in WindowSizes : requests = [i \in 1..n |-> PastLatency(i)]
    /\ errors = <<>>
    /\ systemMetrics = <<>>
    /\ alerts = {}
    /\ omdbStatus = "healthy"
    /\ last = Void
    /\ redis = {}
    /\ redisUp = TRUE
    /\ stats = [hits |-> 0, misses |-> 0]
    /\ inflight = [c \in Callers |-> Idle]
    /\ calls = <<>>
    /\ jobs = [name \in JobNames |-> ScheduleJob(name, Schedules[name], TRUE).config]
    /\ tasks = [name \in JobNames |-> ScheduleJob(name, Schedules[name], TRUE).task]
    /\ running = {}
    /\ trending = {}
    /\ cards = {}
    /\ home = HomePage

NextPerformance ==
    \/ \E d \in PerformanceSteps : Tick(d)
    \/ \E e \in Endpoints, rt \in ResponseTimes, st \in Statuses : RecordRequest(e, rt, st)
    \/ GetPerformanceMetrics

\* The latency figures of a monitor with requests on record
SpecPerformance == InitPerformance /\ [][NextPerformance]_vars

NextTimers ==
    \/ \E d \in MonitorSteps : Tick(d)
    \/ \E name \in JobNames : CronTick(name)
    \/ \E inv \in running, outcome \in {"returns", "throws"} : BodySettles(inv, outcome)
    \/ \E inv \in running : CacheCleanupStep(inv)
    \/ \E r \in Readings : CollectSystemMetrics(r.cpu, r.memory, r.load)
    \/ CheckAlerts
    \/ CleanOldMetrics
    \/ RedisChange

\* The timers of the process: the cron task of every job and the three
\* intervals of the monitor, with job bodies that settle whenever they do
SpecTimers == Init /\ [][NextTimers]_vars

\* How many requests the last seconds before the run have seen
TrafficSizes == {0, 19, 20}

\* A monitor that has recorded a request a second for n seconds, no errors
InitErrorRate ==
    /\ \E n \in TrafficSizes :
          /\ requests = [i \in 1..n |-> PastRequest(i)]
          /\ now = n
    /\ events = 0
    /\ errors = <<>>
    /\ systemMetrics = <<>>
    /\ alerts = {}
    /\ omdbStatus = "healthy"
    /\ last = Void
    /\ redis = {}
    /\ redisUp = TRUE
    /\ stats = [hits |-> 0, misses |-> 0]
    /\ inflight = [c \in Callers |-> Idle]
    /\ calls = <<>>
    /\ jobs = [name \in JobNames |-> ScheduleJob(name, Schedules[name], TRUE).config]
    /\ tasks = [name \in JobNames |-> ScheduleJob(name, Schedules[name], TRUE).task]
    /\ running = {}
    /\ trending = {}
    /\ cards = {}
    /\ home = HomePage

NextErrorRate ==
    \/ \E d \in MonitorSteps : Tick(d)
    \/ \E e \in Endpoints, rt \in ResponseTimes, st \in Statuses : RecordRequest(e, rt, st)
    \/ \E t \in ErrorTypes, msg \in ErrorMessages : RecordError(t, msg)
    \/ CheckAlerts
    \/ \E id \in {<<"high-error-rate">>} : ResolveAlert(id)

\* The alert check of a monitor with traffic on record
SpecErrorRate == InitErrorRate /\ [][NextErrorRate]_vars

\* How far the clock moves between cleanup passes
CleanupSteps == {1800, 3600, 86400}

NextCleanup ==
    \/ \E d \in CleanupSteps : Tick(d)
    \/ \E e \in Endpoints, rt \in ResponseTimes, st \in Statuses : RecordRequest(e, rt, st)
    \/ \E t \in ErrorTypes, msg \in ErrorMessages : RecordError(t, msg)
    \/ \E id \in AlertIds : ResolveAlert(id)
    \/ CleanOldMetrics

\* The cleanup pass of a monitor that records and has its alerts resolved
SpecCleanup == Init /\ [][NextCleanup]_vars

\* How far the clock moves while a card run is under way
BackfillSteps == {1, 2}

\* The process with a trending table and some cards in the data store
InitBackfill ==
    /\ now = 0
    /\ events = 0
    /\ requests = <<>>
    /\ errors = <<>>
    /\ systemMetrics = <<>>
    /\ alerts = {}
    /\ omdbStatus = "healthy"
    /\ last = Void
    /\ redis = {}
    /\ redisUp = TRUE
    /\ stats = [hits |-> 0, misses |-> 0]
    /\ inflight = [c \in Callers |-> Idle]
    /\ calls = <<>>
    /\ jobs = [name \in JobNames |-> ScheduleJob(name, Schedules[name], TRUE).config]
    /\ tasks = [name \in JobNames |-> ScheduleJob(name, Schedules[name], TRUE).task]
    /\ running = {}
    /\ \E table \in CardTables :
          /\ trending = {Row(m, 0) : m \in 1..table[1]}
          /\ cards = table[2]
    /\ home = HomePage

NextBackfill ==
    \/ \E d \in BackfillSteps : Tick(d)
    \/ CronTick("generateTrendingMovieCards")
    \/ RunJob("generateTrendingMovieCards")
    \/ \E inv \in running, threw \in BOOLEAN : CardBackfillLooksUp(inv, threw)
    \/ \E inv \in running, outcome \in BatchOutcomes : CardBackfillBatchEnds(inv, outcome)
    \/ \E inv \in running : CardBackfillDelayEnds(inv)

\* Runs of the card job, batch by batch
SpecBackfill == InitBackfill /\ [][NextBackfill]_vars

\* The lists the provider can answer with
FetchedLists == {{}, Movies}

\* The process with an earlier run's rows in the table and a trending list
\* and a movie in the cache
InitTrending ==
    /\ now = 0
    /\ events = 0
    /\ requests = <<>>
    /\ errors = <<>>
    /\ systemMetrics = <<>>
    /\ alerts = {}
    /\ omdbStatus = "healthy"
    /\ last = Void
    /\ redis = RedisSetEx(RedisSetEx({}, GenerateKey(<<"trending:", "popular">>),
                                     DefaultTTL, Serialize("A"), 0),
                          GenerateKey(<<"movie:", "tt0372784">>), DefaultTTL, Serialize("A"), 0)
    /\ redisUp = TRUE
    /\ stats = [hits |-> 0, misses |-> 0]
    /\ inflight = [c \in Callers |-> Idle]
    /\ calls = <<>>
    /\ jobs = [name \in JobNames |-> ScheduleJob(name, Schedules[name], TRUE).config]
    /\ tasks = [name \in JobNames |-> ScheduleJob(name, Schedules[name], TRUE).task]
    /\ running = {}
    /\ trending = PreviousRows
    /\ cards = {}
    /\ home = HomePage

NextTrending ==
    \/ Cardinality(running) < MaxOverlap /\ CronTick("updateTrendingMovies")
    \/ Cardinality(running) < MaxOverlap /\ RunJob("updateTrendingMovies")
    \/ \E inv \in running, list \in FetchedLists, threw \in BOOLEAN : TrendingFetched(inv, list, threw)
    \/ \E inv \in running, savedMovies \in SUBSET Movies : TrendingItemsSaved(inv, savedMovies)
    \/ \E inv \in running, ok \in BOOLEAN : SaveTrendingStep(inv, ok)
    \/ \E inv \in running : TrendingInvalidates(inv)
    \/ ReadTrending

\* Runs of the trending refresh against the table, its readers and the cache
SpecTrending == InitTrending /\ [][NextTrending]_vars

NextReplace ==
    \/ running = {} /\ CronTick("updateTrendingMovies")
    \/ running = {} /\ RunJob("updateTrendingMovies")
    \/ \E inv \in running, list \in FetchedLists, threw \in BOOLEAN : TrendingFetched(inv, list, threw)
    \/ \E inv \in running, savedMovies \in SUBSET Movies : TrendingItemsSaved(inv, savedMovies)
    \/ \E inv \in running, ok \in BOOLEAN : SaveTrendingStep(inv, ok)
    \/ \E inv \in running : TrendingInvalidates(inv)
    \/ ReadTrending

\* One replacement of the trending table at a time, readers querying the
\* table between any two of its statements
SpecReplace == InitTrending /\ [][NextReplace]_vars

\* The clients whose trending requests are followed
Readers == {"r1"}

\* The process with an earlier run's rows in the table and the cache
\* holding the result of an earlier request, or nothing
InitTrendingRead ==
    /\ now = 0
    /\ events = 0
    /\ requests = <<>>
    /\ errors = <<>>
    /\ systemMetrics = <<>>
    /\ alerts = {}
    /\ omdbStatus = "healthy"
    /\ last = Void
    /\ redis \in {{}, Set({}, TRUE, TrendingKey, Result(PreviousRows), TrendingTtl, 0)}
    /\ redisUp = TRUE
    /\ stats = [hits |-> 0, misses |-> 0]
    /\ inflight = [c \in Readers |-> Idle]
    /\ calls = <<>>
    /\ jobs = [name \in JobNames |-> ScheduleJob(name, Schedules[name], TRUE).config]
    /\ tasks = [name \in JobNames |-> ScheduleJob(name, Schedules[name], TRUE).task]
    /\ running = {}
    /\ trending = PreviousRows
    /\ cards = {}
    /\ home = HomePage

\* Refresh runs, one at a time and each saving at least one movie, and
\* trending requests
NextTrendingRead ==
    \/ running = {} /\ CronTick("updateTrendingMovies")
    \/ running = {} /\ RunJob("updateTrendingMovies")
    \/ \E inv \in running, list \in FetchedLists, threw \in BOOLEAN : TrendingFetched(inv, list, threw)
    \/ \E inv \in running, savedMovies \in (SUBSET Movies) \ {{}} : TrendingItemsSaved(inv, savedMovies)
    \/ \E inv \in running, ok \in BOOLEAN : SaveTrendingStep(inv, ok)
    \/ \E inv \in running : TrendingInvalidates(inv)
    \/ \E c \in Readers : TrendingRequest(c)
    \/ \E c \in Readers : TrendingRequestAfterGet(c)
    \/ \E c \in Readers, threw \in BOOLEAN : TrendingRequestAfterRead(c, threw)
    \/ \E c \in Readers : TrendingRequestAfterSet(c)

\* The trending refresh and the requests that read the table through the cache
SpecTrendingRead == InitTrendingRead /\ [][NextTrendingRead]_vars

\* How a poll of a dependency that is down can end
DownOutcomes == {"unhealthy", "throws"}

\* The process with the cache server and the provider down
InitOutage ==
    /\ now = 0
    /\ events = 0
    /\ requests = <<>>
    /\ errors = <<>>
    /\ systemMetrics = <<>>
    /\ alerts = {}
    /\ omdbStatus = "unhealthy"
    /\ last = Void
    /\ redis = {}
    /\ redisUp = FALSE
    /\ stats = [hits |-> 0, misses |-> 0]
    /\ inflight = [c \in Callers |-> Idle]
    /\ calls = <<>>
    /\ jobs = [name \in JobNames |-> ScheduleJob(name, Schedules[name], TRUE).config]
    /\ tasks = [name \in JobNames |-> ScheduleJob(name, Schedules[name], TRUE).task]
    /\ running = {}
    /\ trending = {}
    /\ cards = {}
    /\ home = HomePage

\* The awaited body of some invocation settles, or takes its next cache call
BodiesSettle ==
    \/ \E inv \in running, outcome \in {"returns", "throws"} : BodySettles(inv, outcome)
    \/ \E inv \in running : CacheCleanupStep(inv)

NextOutage ==
    \/ \E d \in MonitorSteps : Tick(d)
    \/ \E name \in JobNames : CronTick(name)
    \/ \E name \in JobNames : RunJob(name)
    \/ BodiesSettle
    \/ \E r \in Readings : CollectSystemMetrics(r.cpu, r.memory, r.load)
    \/ CheckAlerts
    \/ CleanOldMetrics
    \/ \E db \in DownOutcomes, c \in DownOutcomes : GetHealthStatus(db, c)

\* The scheduler and the monitor with every dependency down and staying
\* down; a call to a dependency settles, so an awaiting wrapper is resumed
SpecOutage == InitOutage /\ [][NextOutage]_vars /\ WF_vars(BodiesSettle)

-----------------------------------------------------------------------------
(* Properties of the monitor *)

Unresolved(m, id) == {a \in m : a.id = id /\ ~a.resolved}

LatestSample == systemMetrics[Len(systemMetrics)]

\* A CPU, memory or load-average reading is over its threshold
OverThreshold(id, sample) ==
    CASE id = <<"high-cpu-usage">> -> sample.cpu > CpuThreshold
      [] id = <<"high-memory-usage">> -> sample.memory > MemoryThreshold
      [] id = <<"high-load-average">> -> sample.load * 10 > sample.cores * 8
      [] OTHER -> FALSE

\* The records of a buffer that fall in the trailing five minutes
Recent(buffer) == {i \in DOMAIN buffer : buffer[i].timestamp > now - FiveMinutes}

\* The condition behind an alert id holds in the monitor's latest data
ConditionHolds(id) ==
    CASE id \in SystemAlertIds ->
            systemMetrics # <<>> /\ OverThreshold(id, LatestSample)
      [] id = <<"high-response-time">> ->
            requests # <<>> /\ requests[Len(requests)].responseTime > ResponseTimeThreshold
      [] id = <<"high-error-rate">> ->
            /\ Recent(requests) # {}
            /\ Cardinality(Recent(errors)) * 100
                  > ErrorRateThreshold * Cardinality(Recent(requests))
      [] OTHER -> \E i \in Recent(errors) : ErrorAlertId(errors[i].type) = id

\* Exactly one unresolved alert for id, carrying this message and timestamp
OpenWith(m, id, message, t) ==
    \E a \in m : /\ Unresolved(m, id) = {a}
                 /\ a.message = message
                 /\ a.timestamp = t

\* C1: in every reachable state there is at most one unresolved alert per
\* alert id.
C1_OneUnresolvedPerId ==
    \A a \in alerts : \A b \in alerts :
        (a.id = b.id /\ ~a.resolved /\ ~b.resolved) => a = b

\* Two breaches of one condition at different times have been merged into
\* one unresolved alert.
C1_Witness ==
    /\ Len(systemMetrics) >= 2
    /\ now > 0
    /\ \A i \in DOMAIN systemMetrics : OverThreshold(<<"high-memory-usage">>, systemMetrics[i])
    /\ \E a \in alerts : a.id = <<"high-memory-usage">> /\ ~a.resolved /\ a.timestamp = now

\* C2: after every breach of a condition there is exactly one unresolved
\* alert for its id, and that alert carries the message and the timestamp
\* of this latest breach.
C2_LatestBreachShown ==
    [][ /\ \A e \in Endpoints, rt \in ResponseTimes, st \in Statuses :
             (RecordRequest(e, rt, st) /\ rt > ResponseTimeThreshold) =>
                OpenWith(alerts', <<"high-response-time">>,
                         Message("High response time detected", <<rt>>, e), now)
        /\ \A t \in ErrorTypes, msg \in ErrorMessages :
             RecordError(t, msg) =>
                OpenWith(alerts', ErrorAlertId(t), Message("Error occurred", <<>>, msg), now)
        /\ \A r \in Readings :
             CollectSystemMetrics(r.cpu, r.memory, r.load) =>
                /\ r.cpu > CpuThreshold =>
                      OpenWith(alerts', <<"high-cpu-usage">>,
                               Message("High CPU usage", <<r.cpu>>, ""), now)
                /\ r.memory > MemoryThreshold =>
                      OpenWith(alerts', <<"high-memory-usage">>,
                               Message("High memory usage", <<r.memory>>, ""), now)
                /\ r.load * 10 > Cores * 8 =>
                      OpenWith(alerts', <<"high-load-average">>,
                               Message("High load average", <<r.load, Cores>>, ""), now)
      ]_vars

\* C3: resolveAlert(id) returns true and marks the alert resolved, with
\* resolvedAt set, exactly when an unresolved alert with that id exists;
\* otherwise it returns false and leaves the alerts as they are. After a
\* successful call no unresolved alert with the id is left, so a repeated
\* call returns false.
C3_ResolveAlert ==
    [][ \A id \in AlertIds \cup {UnknownAlertId} :
          ResolveAlert(id) =>
            LET open == Unresolved(alerts, id) IN
            /\ last'.ret = (open # {})
            /\ open # {} =>
                 /\ alerts' = (alerts \ open) \cup
                       {[a EXCEPT !.resolved = TRUE, !.resolvedAt = now] : a \in open}
                 /\ Unresolved(alerts', id) = {}
            /\ open = {} => alerts' = alerts
      ]_vars

\* A call has just resolved an alert.
C3_Witness ==
    /\ last.op = "resolveAlert"
    /\ last.ret = TRUE
    /\ \E a \in alerts : a.resolved /\ a.resolvedAt = now

\* C4: a sweep resolves every unresolved CPU, memory or load-average alert
\* whose reading in the latest system sample is not over the threshold and
\* whose age is at least the grace period.
C4_ClearedAlertResolved ==
    [][ CheckAlerts =>
          \A a \in alerts :
            ( /\ a.id \in SystemAlertIds
              /\ ~a.resolved
              /\ systemMetrics # <<>>
              /\ ~OverThreshold(a.id, LatestSample)
              /\ now - a.timestamp >= AutoResolveTime )
            => \E b \in alerts' : b.id = a.id /\ b.resolved
      ]_vars

\* C5: a sweep resolves every unresolved alert older than the grace period
\* whose condition no longer holds, whatever its id; stated for the ids
\* outside the CPU/memory/load group.
C5_SweepCoversEveryId ==
    [][ CheckAlerts =>
          \A a \in alerts :
            ( /\ a.id \notin SystemAlertIds
              /\ ~a.resolved
              /\ now - a.timestamp > AutoResolveTime
              /\ ~ConditionHolds(a.id) )
            => \E b \in alerts' : b.id = a.id /\ b.resolved
      ]_vars

\* C6: an alert that a sweep resolves was at least the grace period old, a
\* system sample exists, and the alert's condition does not hold in the
\* latest sample.
C6_Hysteresis ==
    [][ CheckAlerts =>
          \A b \in alerts' \ alerts :
            b.resolved =>
              /\ \E a \in Unresolved(alerts, b.id) : now - a.timestamp >= AutoResolveTime
              /\ systemMetrics # <<>>
              /\ ~OverThreshold(b.id, LatestSample)
      ]_vars

\* A sweep has just run and an alert older than the grace period is resolved
\* as of this moment.
C6_Witness ==
    /\ last.op = "checkAlerts"
    /\ \E a \in alerts : /\ a.id \in SystemAlertIds
                         /\ a.resolved
                         /\ a.resolvedAt = now
                         /\ now - a.timestamp > AutoResolveTime

\* The status the health aggregator is to report
ExpectedStatus(m, dbOutcome, cacheOutcome) ==
    IF \/ dbOutcome # "healthy"
       \/ cacheOutcome # "healthy"
       \/ \E a \in m : ~a.resolved /\ a.type = "critical"
    THEN "unhealthy"
    ELSE IF \E a \in m : ~a.resolved /\ a.type \in {"error", "warning"}
         THEN "degraded"
         ELSE "healthy"

\* C7: getHealthStatus returns unhealthy iff a polled dependency is unhealthy
\* (reports non-healthy or throws) or an unresolved alert is critical,
\* otherwise degraded iff an unresolved alert is an error or a warning,
\* otherwise healthy; the alerts it returns are exactly the unresolved ones.
C7_HealthStatus ==
    [][ \A db \in HealthOutcomes, c \in HealthOutcomes :
          GetHealthStatus(db, c) =>
            /\ last'.ret.status = ExpectedStatus(alerts, db, c)
            /\ last'.ret.alerts = {a \in alerts : ~a.resolved}
      ]_vars

\* Healthy has been reported while a resolved alert is still held.
C7_Witness ==
    /\ last.op = "getHealthStatus"
    /\ last.ret.status = "healthy"
    /\ \E a \in alerts : a.resolved

\* C8: while the movie-metadata provider's healthCheck() reports unhealthy,
\* getHealthStatus reports unhealthy.
C8_ProviderDownIsUnhealthy ==
    [][ \A db \in HealthOutcomes, c \in HealthOutcomes :
          (GetHealthStatus(db, c) /\ omdbStatus = "unhealthy") =>
             last'.ret.status = "unhealthy"
      ]_vars

-----------------------------------------------------------------------------
(* Properties of the cache-aside layer *)

\* Call j is the getOrSet call that follows call i, by the same key and ttl,
\* call i having fetched a value and stored it, neither call having met a
\* failing backend or a failing fetchFunction
StoredThenCalled(i, j) ==
    /\ j = i + 1
    /\ calls[j].key = calls[i].key
    /\ calls[j].ttl = calls[i].ttl
    /\ ~calls[i].cached
    /\ calls[i].result = "returned" /\ calls[j].result = "returned"
    /\ ~calls[i].raised /\ ~calls[j].raised
    /\ calls[i].failures = 0 /\ calls[j].failures = 0

\* The moment the ttl of what call i stored has elapsed
Expiry(i) == calls[i].end + EffectiveTtl(calls[i].ttl)

\* C9: with a working cache backend, of two getOrSet calls in sequence by the
\* same key and ttl, the second one made within ttl, fetchFunction is
\* invoked exactly once (by the first) and the second returns the stored
\* value; when the second is made after ttl has elapsed, it invokes
\* fetchFunction again; whatever value fetchFunction returns.
C9_FetchedOncePerTtl ==
    \A i \in DOMAIN calls, j \in DOMAIN calls :
        StoredThenCalled(i, j) =>
            /\ calls[j].end < Expiry(i) =>
                   /\ calls[i].fetches + calls[j].fetches = 1
                   /\ calls[j].ret = calls[i].ret
            /\ calls[j].start >= Expiry(i) => calls[j].fetches = 1

\* C10: a getOrSet call that has ended invoked fetchFunction at most once:
\* not at all when it returned the cached value, exactly once otherwise,
\* also when fetchFunction failed or the cache backend failed.
C10_ProducerAtMostOnce ==
    \A i \in DOMAIN calls :
        /\ calls[i].fetches <= 1
        /\ calls[i].cached => calls[i].fetches = 0
        /\ ~calls[i].cached => calls[i].fetches = 1

\* C11: a value getOrSet(key, fetchFunction, {ttl}) returns from the cache
\* was stored at most ttl ago (the default when ttl is left out), whatever
\* earlier set, setWithExpiry or getOrSet call stored it and with whatever
\* ttl.
C11_NeverOlderThanTtl ==
    \A i \in DOMAIN calls :
        (calls[i].result = "returned" /\ calls[i].cached) =>
            calls[i].end - calls[i].storedAt <= EffectiveTtl(calls[i].ttl)

-----------------------------------------------------------------------------
(* Properties of the cache store *)

\* What the operations return from an empty, reachable cache
EmptyGet == Get({}, TRUE, <<"trending:", "popular">>, 0).value
EmptyExists == Exists({}, TRUE, <<"trending:", "popular">>, 0).ret
EmptyClear == ClearByPattern({}, TRUE, <<"trending:", "*">>, 0).ret

\* C12: with the cache backend unreachable no operation of the cache store
\* throws: get returns null, exists returns false, set and delete leave the
\* store as it is, clearByPattern returns 0, each as from an empty cache; and
\* a getOrSet call that met the failing backend has not taken a value from
\* the cache, returns what fetchFunction produced, and rejects only when
\* fetchFunction did.
C12_OutageNeverPropagates ==
    /\ [][~redisUp =>
            /\ \A key \in CacheKeys :
                   /\ CacheGet(key) => last'.ret = EmptyGet /\ ~last'.threw /\ redis' = redis
                   /\ CacheExists(key) => last'.ret = EmptyExists /\ ~last'.threw /\ redis' = redis
                   /\ CacheDelete(key) => ~last'.threw /\ redis' = redis
                   /\ \A value \in StoredValues, ttl \in TtlOptions :
                          CacheSet(key, value, ttl) => ~last'.threw /\ redis' = redis
            /\ \A pattern \in Patterns :
                   CacheClearByPattern(pattern) =>
                       last'.ret = EmptyClear /\ ~last'.threw /\ redis' = redis]_vars
    /\ [](\A i \in DOMAIN calls :
             calls[i].failures >= 1 =>
                 /\ ~calls[i].cached
                 /\ calls[i].result = "returned" => calls[i].ret = calls[i].fetched
                 /\ calls[i].result = "threw" => calls[i].raised)

\* The backend is unreachable and holds entries, clearByPattern has just
\* returned 0, and a getOrSet call whose get and set both failed has returned
C12_Witness ==
    /\ ~redisUp
    /\ Unexpired(redis, now) # {}
    /\ last.op = "clearByPattern" /\ last.ret = 0
    /\ \E i \in DOMAIN calls : calls[i].failures = 2 /\ calls[i].result = "returned"

\* The entry's key lies under the service's prefix in the namespace the
\* pattern names
InNamespace(e, pattern) ==
    /\ Len(e.key) >= 2
    /\ e.key[1] = KeyPrefix
    /\ e.key[2] = pattern[1]

\* C13: with the backend reachable, clearByPattern(p) deletes exactly the
\* entries whose keys match p under the service's key prefix, leaves every
\* other entry with its value and expiry as it was (clearing "trending:*"
\* leaves the search:, temp: and movie: keys), and returns the number of
\* entries deleted.
C13_ClearsOnlyMatching ==
    [][\A pattern \in Patterns :
          (redisUp /\ CacheClearByPattern(pattern)) =>
              /\ Unexpired(redis', now) =
                     {e \in Unexpired(redis, now) : ~InNamespace(e, pattern)}
              /\ last'.ret =
                     Cardinality({e \in Unexpired(redis, now) : InNamespace(e, pattern)})
              /\ ~last'.threw]_vars

\* clearByPattern has just deleted an entry and an entry of another
\* namespace is still held
C13_Witness ==
    /\ redisUp
    /\ last.op = "clearByPattern" /\ last.ret = 1
    /\ Unexpired(redis, now) # {}

-----------------------------------------------------------------------------
(* Properties of the scheduler *)

\* The invocation with this id is in progress
InProgress(r, id) == \E inv \in r : inv.id = id

\* The config went from c to d by one successful run, or by one failed run
OneRun(c, d) == d = [c EXCEPT !.runCount = @ + 1, !.nextRun = d.nextRun]
OneError(c, d) == d = [c EXCEPT !.errorCount = @ + 1, !.nextRun = d.nextRun]

\* C14: when an invocation of a job body completes, cron-dispatched or
\* manual, exactly one counter of that job changes, by one: runCount when
\* the body returned, errorCount when it threw; the job's enabled flag and
\* schedule, the other jobs and the cron tasks stay as they are, no other
\* invocation is started, and the wrapper ends normally (runJob returning
\* whether the body returned).
C14_OneCounterPerInvocation ==
    [][\A inv \in running :
          ~InProgress(running', inv.id) =>
              /\ OneRun(jobs[inv.job], jobs'[inv.job]) \/ OneError(jobs[inv.job], jobs'[inv.job])
              /\ \A outcome \in {"returns", "throws"} :
                     BodySettles(inv, outcome) =>
                         IF outcome = "returns"
                         THEN OneRun(jobs[inv.job], jobs'[inv.job])
                         ELSE OneError(jobs[inv.job], jobs'[inv.job])
              /\ \A name \in JobNames \ {inv.job} : jobs'[name] = jobs[name]
              /\ tasks' = tasks
              /\ running' = running \ {inv}
              /\ last'.op = "finished" /\ last'.name = inv.job
              /\ last'.ret = IF inv.via = "cron" THEN "void"
                             ELSE IF OneRun(jobs[inv.job], jobs'[inv.job])
                                  THEN "true" ELSE "false"]_vars

\* A manual run has just failed, and a run of another job has succeeded
C14_Witness ==
    /\ last.op = "finished" /\ last.arg = "manual" /\ last.ret = "false"
    /\ jobs[last.name].errorCount = 1 /\ jobs[last.name].runCount = 0
    /\ \E name \in JobNames : jobs[name].runCount = 1

\* C15: at no time are two invocations of the same job's body in progress.
C15_NoSelfOverlap ==
    \A a \in running, b \in running : a.job = b.job => a = b

\* C16: toggleJob(name, enabled) and runJob(name) with a name that is not in
\* the registry return false and leave every job's config, every cron task
\* and the invocations in progress as they are: no body is run.
C16_UnknownNameReportsFalse ==
    [][/\ \A enabled \in BOOLEAN :
              ToggleJob(UnknownJob, enabled) =>
                  last'.ret = "false" /\ UNCHANGED <<jobs, tasks, running>>
       /\ RunJob(UnknownJob) =>
              last'.ret = "false" /\ UNCHANGED <<jobs, tasks, running>>]_vars

\* runJob has just been called with the unknown name, while a job is
\* disabled and a body is in progress
C16_Witness ==
    /\ last.op = "runJob" /\ last.name = UnknownJob /\ last.ret = "false"
    /\ running # {}
    /\ \E name \in JobNames : ~jobs[name].enabled

\* The counters of every job
Counters(js) == [name \in DOMAIN js |-> <<js[name].runCount, js[name].errorCount>>]

\* C17: toggleJob never changes a runCount or an errorCount, so disabling a
\* job and enabling it again leaves both as they were; the call that
\* re-enables a disabled job leaves it enabled with its cron task started,
\* and every cron tick of an enabled job starts an invocation of its body.
C17_ToggleKeepsCounters ==
    [][\A name \in JobNames :
          /\ \A enabled \in BOOLEAN :
                 ToggleJob(name, enabled) => Counters(jobs') = Counters(jobs)
          /\ (ToggleJob(name, TRUE) /\ ~jobs[name].enabled) =>
                 jobs'[name].enabled /\ tasks'[name]
          /\ (CronTick(name) /\ jobs[name].enabled) =>
                 \E inv \in running' \ running : inv.job = name /\ inv.via = "cron"]_vars

\* A job that has run once and was then disabled has just been enabled
\* again
C17_Witness ==
    /\ last.op = "toggleJob" /\ last.ret = "true"
    /\ last.enabled /\ ~last.was
    /\ jobs[last.name].enabled /\ tasks[last.name]
    /\ jobs[last.name].runCount = 1

\* C18: when a manual run of "cacheCleanup" completes, the job's runCount
\* has grown by exactly 1, its errorCount is as it was, runJob returns true
\* and the monitor holds no alert with id "error-cacheCleanup"; with the
\* cache backend reachable or not.
C18_ManualCleanupCounts ==
    [][\A inv \in running :
          (inv.job = "cacheCleanup" /\ inv.via = "manual" /\ ~InProgress(running', inv.id)) =>
              /\ OneRun(jobs["cacheCleanup"], jobs'["cacheCleanup"])
              /\ last'.ret = "true"
              /\ ~MapHas(alerts', ErrorAlertId("cacheCleanup"))]_vars

\* A manual run of cacheCleanup has just completed against an unreachable
\* backend holding an entry of a namespace it clears
C18_Witness ==
    /\ last.op = "finished" /\ last.name = "cacheCleanup" /\ last.arg = "manual"
    /\ ~redisUp
    /\ \E e \in redis : e.key[2] \in {"temp:", "search:"}
    /\ jobs["cacheCleanup"].runCount = 1 /\ jobs["cacheCleanup"].errorCount = 0

\* C19: the registry always holds the same six jobs, each under its own
\* name, whatever ticks, toggleJob, runJob, start and stop calls are made,
\* and no step lowers a runCount or an errorCount.
C19_RegistryFixedCountersMonotonic ==
    /\ [](/\ DOMAIN jobs = JobNames
          /\ Cardinality(DOMAIN jobs) = 6
          /\ \A name \in DOMAIN jobs : jobs[name].name = name)
    /\ [][\A name \in JobNames :
              /\ jobs'[name].runCount >= jobs[name].runCount
              /\ jobs'[name].errorCount >= jobs[name].errorCount]_vars

\* A job has failed once and then run once, and the scheduler has just
\* been stopped
C19_Witness ==
    /\ last.op = "stop"
    /\ \E name \in JobNames : jobs[name].runCount = 1 /\ jobs[name].errorCount = 1
    /\ \A name \in JobNames : ~tasks[name]

-----------------------------------------------------------------------------
(* Properties of the metric buffers *)

\* Buffer after is buffer before with one record put at the end, the
\* oldest record dropped when before was at the cap
PushedEvicting(before, after, cap) ==
    /\ after # <<>>
    /\ after = IF Len(before) < cap
               THEN Append(before, after[Len(after)])
               ELSE Append(Tail(before), after[Len(after)])

\* C20: the request buffer never holds more than 1000 records, the error
\* buffer 500, the system-sample buffer 100; each recording puts its record
\* at the end of its buffer and, the buffer being full, drops the oldest
\* one, so a buffer holds the most recent records in arrival order.
C20_BuffersCapped ==
    /\ [](/\ Len(requests) <= RequestsCap
          /\ Len(errors) <= ErrorsCap
          /\ Len(systemMetrics) <= SystemMetricsCap)
    /\ [][/\ \A e \in Endpoints, rt \in ResponseTimes, st \in Statuses :
                RecordRequest(e, rt, st) =>
                    /\ PushedEvicting(requests, requests', RequestsCap)
                    /\ requests'[Len(requests')] =
                           [timestamp |-> now, responseTime |-> rt, status |-> st, endpoint |-> e]
           /\ \A t \in ErrorTypes, msg \in ErrorMessages :
                RecordError(t, msg) =>
                    /\ PushedEvicting(errors, errors', ErrorsCap)
                    /\ errors'[Len(errors')] = [timestamp |-> now, type |-> t, message |-> msg]
           /\ \A r \in Readings :
                CollectSystemMetrics(r.cpu, r.memory, r.load) =>
                    /\ PushedEvicting(systemMetrics, systemMetrics', SystemMetricsCap)
                    /\ systemMetrics'[Len(systemMetrics')] =
                           [cpu |-> r.cpu, memory |-> r.memory, load |-> r.load, cores |-> Cores]]_vars

\* The request buffer has been filled and has then dropped its oldest
\* record, and the full error buffer has dropped its oldest
C20_Witness ==
    /\ Len(requests) = RequestsCap
    /\ requests[1] = PastRequest(2)
    /\ Len(errors) = ErrorsCap
    /\ errors[1] = PastError(2)

-----------------------------------------------------------------------------
(* Properties of the performance figures *)

\* The latencies of the requests of the trailing hour, in arrival order
WindowLatencies ==
    LET recent == SelectSeq(requests, LAMBDA r : r.timestamp > now - OneHour)
    IN  [i \in DOMAIN recent |-> recent[i].responseTime]

\* sorted is ascending and holds each latency as often as the window does
SortedAscending(sorted, latencies) ==
    /\ Len(sorted) = Len(latencies)
    /\ \A i \in 1..(Len(sorted) - 1) : sorted[i] <= sorted[i + 1]
    /\ \A i \in DOMAIN latencies :
          Cardinality({j \in DOMAIN sorted : sorted[j] = latencies[i]})
              = Cardinality({j \in DOMAIN latencies : latencies[j] = latencies[i]})

\* The ascending arrangement of the window's latencies
SortedWindow ==
    CHOOSE sorted \in {SortSeq(WindowLatencies, LAMBDA a, b : a < b),
                       SortSeq(WindowLatencies, LAMBDA a, b : a > b)} :
        SortedAscending(sorted, WindowLatencies)

\* C21: over the n latencies of the trailing window sorted ascending,
\* getPerformanceMetrics reports p95 = sorted[floor(n * 0.95)] and
\* p99 = sorted[floor(n * 0.99)] (0-based); for n >= 1 both indices lie in
\* 0..n-1 and min <= p95 <= p99 <= max, and for 100 latencies the p95 index is
\* 95; for n = 0 every latency figure is 0.
C21_Percentiles ==
    last.op = "getPerformanceMetrics" =>
        LET n == Len(WindowLatencies)
            p95Index == (n * 95) \div 100
            p99Index == (n * 99) \div 100
            figures == last.ret.responseTime
        IN  /\ SortedAscending(SortedWindow, WindowLatencies)
            /\ n >= 1 =>
                  /\ p95Index \in 0..(n - 1)
                  /\ p99Index \in 0..(n - 1)
                  /\ figures.p95 = SortedWindow[p95Index + 1]
                  /\ figures.p99 = SortedWindow[p99Index + 1]
                  /\ figures.min = SortedWindow[1]
                  /\ figures.max = SortedWindow[n]
                  /\ figures.min <= figures.p95
                  /\ figures.p95 <= figures.p99
                  /\ figures.p99 <= figures.max
            /\ n = 100 => figures.p95 = SortedWindow[96]
            /\ n = 0 => figures = [average |-> <<0, 1>>, min |-> 0, max |-> 0,
                                   p95 |-> 0, p99 |-> 0]

\* The figures have been asked for with exactly 100 latencies in the window,
\* the sixth largest of them being the p95 and lying under the p99
C21_Witness ==
    /\ last.op = "getPerformanceMetrics"
    /\ Len(WindowLatencies) = 100
    /\ last.ret.responseTime.p95 = SortedWindow[96]
    /\ last.ret.responseTime.p95 < last.ret.responseTime.p99
    /\ last.ret.responseTime.min < last.ret.responseTime.p95

-----------------------------------------------------------------------------
(* Properties of the timers *)

\* C22: while the body of one job is suspended, the cron tick of every other
\* enabled job can still fire and, firing, starts that job's body next to the
\* suspended one; the sampling, sweep and cleanup timers of the monitor can
\* still run.
C22_OthersNotDelayed ==
    /\ [](\A inv \in running :
            /\ \A name \in JobNames \ {inv.job} :
                  (tasks[name] /\ jobs[name].enabled /\ events < MaxEvents)
                      => ENABLED CronTick(name)
            /\ events < MaxEvents =>
                  \A r \in Readings : ENABLED CollectSystemMetrics(r.cpu, r.memory, r.load)
            /\ ENABLED CheckAlerts
            /\ ENABLED CleanOldMetrics)
    /\ [][\A name \in JobNames :
             (CronTick(name) /\ jobs[name].enabled) =>
                 /\ running \subseteq running'
                 /\ \E inv \in running' \ running :
                       /\ inv.job = name
                       /\ running' = running \cup {inv}]_vars

\* The body started by the first tick is still suspended, while another job
\* has ticked after it and completed a run, and the monitor has sampled
C22_Witness ==
    \E inv \in running :
        /\ inv.id = 1
        /\ \E name \in JobNames \ {inv.job} : jobs[name].runCount = 1
        /\ Len(systemMetrics) = 1

-----------------------------------------------------------------------------
(* Properties under an outage of every dependency *)

\* C23: with every dependency down, every cron tick and manual run
\* terminates with one of its job's counters advanced; nothing is thrown out
\* of a tick, a manual run, a sweep, a sampling pass or getHealthStatus, which
\* reports both services unhealthy; and the cron ticks, the sweep and the
\* sampling can still be taken afterwards.
C23_KeepsRunningWhenAllDown ==
    /\ [](/\ last.op \in {"tick", "runJob", "void", "checkAlerts"} =>
                last.ret \in {"void", "pending"}
          /\ last.op = "finished" => last.ret \in {"void", "false", "true"}
          /\ last.op = "getHealthStatus" =>
                /\ last.ret.status = "unhealthy"
                /\ last.ret.services = [database |-> "unhealthy", cache |-> "unhealthy"])
    /\ \A id \in 1..MaxEvents : InProgress(running, id) ~> ~InProgress(running, id)
    /\ [][\A inv \in running :
             ~InProgress(running', inv.id) =>
                 /\ OneRun(jobs[inv.job], jobs'[inv.job]) \/ OneError(jobs[inv.job], jobs'[inv.job])
                 /\ last'.op = "finished"]_vars
    /\ [](/\ events < MaxEvents =>
                /\ \A name \in JobNames : tasks[name] => ENABLED CronTick(name)
                /\ \A r \in Readings : ENABLED CollectSystemMetrics(r.cpu, r.memory, r.load)
          /\ ENABLED CheckAlerts
          /\ ENABLED CleanOldMetrics)

\* A cron tick of a job has ended in a counted failure and the same job has
\* ticked again, its body running
C23_Witness ==
    \E inv \in running :
        /\ inv.via = "cron"
        /\ jobs[inv.job].errorCount = 1
        /\ jobs[inv.job].runCount = 0

-----------------------------------------------------------------------------
(* Properties of alert creation *)

\* The alerts of m filed under id
Filed(m, id) == {a \in m : a.id = id}

\* The alert createAlert inserts
Fresh(id, type, message, metadata, t) ==
    [id |-> id, type |-> type, message |-> message, timestamp |-> t,
     resolved |-> FALSE, resolvedAt |-> NoDate, metadata |-> metadata]

\* C24: a condition raised while its id has no alert, or only a resolved
\* one, leaves exactly one alert under that id: unresolved, without
\* resolvedAt, carrying the severity, message, metadata and time of this
\* raising; a resolved alert that was there is gone.
C24_RaisedAfresh ==
    [][/\ \A t \in ErrorTypes, msg \in ErrorMessages :
            (RecordError(t, msg) /\ Unresolved(alerts, ErrorAlertId(t)) = {}) =>
                Filed(alerts', ErrorAlertId(t)) =
                    {Fresh(ErrorAlertId(t), "error", Message("Error occurred", <<>>, msg),
                           [type |-> t], now)}
       /\ \A e \in Endpoints, rt \in ResponseTimes, st \in Statuses :
            (/\ RecordRequest(e, rt, st)
             /\ rt > ResponseTimeThreshold
             /\ Unresolved(alerts, <<"high-response-time">>) = {}) =>
                Filed(alerts', <<"high-response-time">>) =
                    {Fresh(<<"high-response-time">>, "warning",
                           Message("High response time detected", <<rt>>, e),
                           [endpoint |-> e, responseTime |-> rt, status |-> st], now)}
       /\ \A r \in Readings :
            (/\ CollectSystemMetrics(r.cpu, r.memory, r.load)
             /\ r.memory > MemoryThreshold
             /\ Unresolved(alerts, <<"high-memory-usage">>) = {}) =>
                Filed(alerts', <<"high-memory-usage">>) =
                    {Fresh(<<"high-memory-usage">>, "warning",
                           Message("High memory usage", <<r.memory>>, ""),
                           [memoryUsage |-> r.memory], now)}
       /\ (CheckAlerts /\ Unresolved(alerts, <<"high-error-rate">>) = {}) =>
              \A a \in Filed(alerts', <<"high-error-rate">>) :
                  /\ Filed(alerts', <<"high-error-rate">>) = {a}
                  /\ (~a.resolved /\ a.resolvedAt = NoDate /\ a.type = "error"
                       /\ a.timestamp = now)
                     \/ a \in alerts]_vars

\* Memory was over its threshold at 90, the alert was resolved, and memory
\* was over it again at 95: the one alert on file is the second raising's
C24_Witness ==
    /\ Len(systemMetrics) = 2
    /\ systemMetrics[1].memory = 90
    /\ systemMetrics[2].memory = 95
    /\ Filed(alerts, <<"high-memory-usage">>) =
           {Fresh(<<"high-memory-usage">>, "warning",
                  Message("High memory usage", <<95>>, ""), [memoryUsage |-> 95], now)}

-----------------------------------------------------------------------------
(* Properties of the error-rate check *)

\* The error rate of the trailing five minutes is over the threshold:
\* errors / requests * 100 > ErrorRateThreshold, with at least one request
ErrorRateExceeded ==
    /\ Cardinality(Recent(requests)) >= 1
    /\ Cardinality(Recent(errors)) * 100 > ErrorRateThreshold * Cardinality(Recent(requests))

\* C25: an alert check raises `high-error-rate`, with severity error, exactly
\* when the trailing five minutes hold at least one request and errors per
\* request, in percent, exceed the threshold; otherwise, and always with no
\* request in the window, the check leaves what is filed under that id alone.
C25_ErrorRateAlert ==
    [][CheckAlerts =>
          /\ ErrorRateExceeded =>
                \E a \in alerts' :
                    /\ Filed(alerts', <<"high-error-rate">>) = {a}
                    /\ a.type = "error" /\ ~a.resolved /\ a.timestamp = now
                    /\ Unresolved(alerts, <<"high-error-rate">>) = {} =>
                          a.metadata = [errorRate |-> <<Cardinality(Recent(errors)) * 100,
                                                       Cardinality(Recent(requests))>>,
                                        errorCount |-> Cardinality(Recent(errors)),
                                        requestCount |-> Cardinality(Recent(requests))]
          /\ ~ErrorRateExceeded =>
                Filed(alerts', <<"high-error-rate">>) = Filed(alerts, <<"high-error-rate">>)
          /\ Recent(requests) = {} =>
                Filed(alerts', <<"high-error-rate">>) = Filed(alerts, <<"high-error-rate">>)]_vars

\* A check has raised the alert at one error in nineteen requests
C25_Witness ==
    /\ last.op = "checkAlerts"
    /\ Cardinality(Recent(requests)) = 19
    /\ Cardinality(Recent(errors)) = 1
    /\ \E a \in alerts : a.id = <<"high-error-rate">> /\ ~a.resolved /\ a.timestamp = now

\* A check has raised nothing at one error in twenty requests, the
\* threshold itself
C25_WitnessAtThreshold ==
    /\ last.op = "checkAlerts"
    /\ Cardinality(Recent(requests)) = 20
    /\ Cardinality(Recent(errors)) = 1
    /\ Filed(alerts, <<"high-error-rate">>) = {}

\* A check has raised nothing with errors and no request in the window
C25_WitnessNoRequests ==
    /\ last.op = "checkAlerts"
    /\ Recent(requests) = {}
    /\ Cardinality(Recent(errors)) >= 1
    /\ Filed(alerts, <<"high-error-rate">>) = {}

-----------------------------------------------------------------------------
(* Properties of the cleanup pass *)

\* What a pass leaves of a buffer when it drops the records `gone` holds of
Without(buffer, gone(_)) == SelectSeq(buffer, LAMBDA r : ~gone(r))

\* The alerts a pass drops: resolved, with resolvedAt more than 24 hours ago
Expired(a) == a.resolved /\ a.resolvedAt # NoDate /\ now - a.resolvedAt > OneDay

-----------------------------------------------------------------------------
(* Properties of the cache cleanup job *)

\* The entry lies in one of the two namespaces the cleanup job clears
ShortLived(e) == InNamespace(e, <<"temp:", "*">>) \/ InNamespace(e, <<"search:", "*">>)

\* C29: a step of a cacheCleanup run deletes only entries of the temp: and
\* search: namespaces; every other entry (trending:, movie:) is held after
\* the step with the key, value and expiry it had before, and the run adds
\* no entry.
C29_JanitorFrame ==
    [][\A inv \in running :
          CacheCleanupStep(inv) =>
              /\ \A e \in Unexpired(redis, now) : ~ShortLived(e) => e \in Unexpired(redis', now)
              /\ \A e \in Unexpired(redis, now) \ Unexpired(redis', now) : ShortLived(e)
              /\ Unexpired(redis', now) \subseteq Unexpired(redis, now)
              /\ (redisUp /\ inv.pc = "clearTemp") =>
                    \A e \in Unexpired(redis', now) : ~InNamespace(e, <<"temp:", "*">>)
              /\ (redisUp /\ inv.pc = "clearSearch") =>
                    \A e \in Unexpired(redis', now) : ~InNamespace(e, <<"search:", "*">>)]_vars

\* A cleanup run has made both its clearing calls against a reachable cache
\* server that holds a trending: entry and nothing short-lived
C29_Witness ==
    /\ redisUp
    /\ \E inv \in running : inv.job = "cacheCleanup" /\ inv.pc = "newStats"
    /\ \E e \in Unexpired(redis, now) : InNamespace(e, <<"trending:", "*">>)
    /\ \A e \in Unexpired(redis, now) : ~ShortLived(e)

-----------------------------------------------------------------------------
(* Properties of the card job *)

\* The step takes invocation inv from one batch to the generator call of
\* the next
NextBatchCalled(inv, next) ==
    /\ next.id = inv.id
    /\ next.pc = "generating"
    /\ inv.pc \in {"generating", "delay"}
    /\ next.i > inv.i

\* Batches hold at most five movies, and a pause is taken only when a batch
\* follows
BatchesBounded ==
    \A inv \in running :
        /\ inv.pc = "generating" => inv.size \in 1..BatchSize
        /\ inv.pc = "delay" => inv.i + BatchSize < inv.n

\* After a batch that was generated and saved, the next generator call comes
\* no sooner than the pause after it
PausedAfterSaved ==
    [][\A inv \in running : \A next \in running' :
          (NextBatchCalled(inv, next) /\ inv.pc = "delay") =>
              now - inv.since >= BatchDelay]_vars

\* C30: a run of the card job hands the generator batches of at most 5
\* movies; between the end of a batch and the generator call of the next the
\* inter-batch delay elapses, whether the earlier batch succeeded or failed;
\* no delay is taken after the last batch.
C30_DelayBetweenBatches ==
    /\ []BatchesBounded
    /\ [][\A inv \in running : \A next \in running' :
             NextBatchCalled(inv, next) =>
                 /\ inv.pc = "delay"
                 /\ now - inv.since >= BatchDelay]_vars

-----------------------------------------------------------------------------
(* Properties of the trending table *)

\* The rows of the table come from one saveTrendingMovies call, or are the
\* rows the run started with
OneSet(rows) == \A r \in rows : \A q \in rows : r.id[3] = q.id[3]

C27_WitnessReplaced ==
    /\ last.op = "getTrendingMovies"
    /\ last.ret = Movies
    /\ running = {}

\* A replacement failed after its deletes: the previous set is in the table
\* and the failure is counted
C27_WitnessRolledBack ==
    /\ running = {}
    /\ trending = PreviousRows
    /\ cards = {}
    /\ home = HomePage
    /\ jobs["updateTrendingMovies"].errorCount = 1
    /\ jobs["updateTrendingMovies"].runCount = 0

\* The step ends a run with one more counted failure and nothing else
FailsRun(inv) ==
    /\ ~InProgress(running', inv.id)
    /\ OneError(jobs[inv.job], jobs'[inv.job])
    /\ last'.op = "finished" /\ last'.ret \in {"void", "false"}

\* C28: a run of the trending refresh clears the trending: cache namespace
\* only in the step after its replacement of the table has committed; a run
\* whose replacement fails leaves the cache as it was and is counted as one
\* failure; a movie that is skipped does not end the run.
C28_InvalidatedAfterCommit ==
    /\ [][redis' # redis =>
             \E inv \in running : inv.pc = "invalidate" /\ TrendingInvalidates(inv)]_vars
    /\ [][\A inv \in running : \A next \in running' :
             (next.id = inv.id /\ next.pc = "invalidate") =>
                 \/ inv.pc = "invalidate"
                 \/ inv.pc = "commit" /\ inv.rows \subseteq trending' /\ inv.put = inv.rows]_vars
    /\ [][\A inv \in running : \A ok \in BOOLEAN :
             (SaveTrendingStep(inv, ok) /\ (~ok \/ ~InProgress(running', inv.id))) =>
                 /\ redis' = redis
                 /\ trending' = trending
                 /\ FailsRun(inv)]_vars
    /\ [][\A inv \in running : \A savedMovies \in SUBSET Movies :
             TrendingItemsSaved(inv, savedMovies) =>
                 /\ InProgress(running', inv.id)
                 /\ jobs' = jobs
                 /\ \E next \in running' :
                       next.id = inv.id /\ next.rows = TrendingData(inv, savedMovies)]_vars
    /\ [][\A inv \in running :
             TrendingInvalidates(inv) =>
                 /\ OneRun(jobs[inv.job], jobs'[inv.job])
                 /\ redisUp => \A e \in Unexpired(redis', now) :
                                   ~InNamespace(e, <<"trending:", "*">>)]_vars

\* A run has fetched two movies, skipped one, replaced the table with the
\* other, cleared the trending: namespace and returned: one run counted
C28_Witness ==
    /\ running = {}
    /\ jobs["updateTrendingMovies"].runCount = 1
    /\ jobs["updateTrendingMovies"].errorCount = 0
    /\ events = 1
    /\ trending = {Row("tt1", 1)}
    /\ \A e \in Unexpired(redis, now) : ~InNamespace(e, <<"trending:", "*">>)
    /\ \E e \in Unexpired(redis, now) : InNamespace(e, <<"movie:", "*">>)

\* A run's replacement has failed: a failure is counted and the trending:
\* entry is still cached
C28_WitnessFailed ==
    /\ running = {}
    /\ jobs["updateTrendingMovies"].errorCount = 1
    /\ trending = PreviousRows
    /\ cards = {}
    /\ home = HomePage
    /\ \E e \in Unexpired(redis, now) : InNamespace(e, <<"trending:", "*">>)

-----------------------------------------------------------------------------
(* Properties of the card job's persistence *)

\* The members of a sequence
Range(seq) == {seq[k] : k \in DOMAIN seq}

\* C31: in a run of the card job a card that is persisted stays persisted,
\* whatever fails later; a batch whose generation or save fails is followed
\* by the generator call for the next batch when there is one; the movies
\* handed to the generator are trending movies that had no card when the run
\* looked, and a batch that fails part-way keeps the cards saved before.
C31_PartialProgressSurvives ==
    /\ [][cards \subseteq cards']_vars
    /\ [][\A inv \in running : \A outcome \in {"generateThrows", "saveThrows"} :
             CardBackfillBatchEnds(inv, outcome) =>
                 /\ cards' \ cards \subseteq Range(Batch(inv))
                 /\ IF inv.i + BatchSize < inv.n
                    THEN \E next \in running' :
                           /\ next.id = inv.id
                           /\ next.pc = "generating"
                           /\ next.i = inv.i + BatchSize
                           /\ jobs' = jobs
                    ELSE /\ ~InProgress(running', inv.id)
                         /\ OneRun(jobs[inv.job], jobs'[inv.job])]_vars
    /\ [][\A inv \in running : \A threw \in BOOLEAN :
             CardBackfillLooksUp(inv, threw) =>
                 \A next \in running' :
                     (next.id = inv.id /\ next.pc = "generating") =>
                         /\ Range(next.needing) =
                              {r.movieId : r \in trending} \ cards
                         /\ Range(Batch(next)) \subseteq Range(next.needing)]_vars
    /\ [](\A inv \in running :
             inv.pc = "generating" =>
                 /\ Range(Batch(inv)) \subseteq Range(inv.needing)
                 /\ Len(Batch(inv)) = inv.size)

\* A run has ended in which a save failed after four cards of the first
\* batch, and the second batch was generated and saved: the four cards and
\* the card of the second batch are persisted, next to the card there was
C31_Witness ==
    /\ running = {}
    /\ jobs["generateTrendingMovieCards"].runCount = 1
    /\ jobs["generateTrendingMovieCards"].errorCount = 0
    /\ {r.movieId : r \in trending} = 1..7
    /\ cards = {1, 2, 3, 4, 5, 7}

-----------------------------------------------------------------------------
(* Properties of the hit and miss counters *)

\* The step is a get() that settles: a direct call, or the one inside getOrSet
GetSettles ==
    \/ \E key \in Keys : CacheGet(key)
    \/ \E c \in Callers : GetOrSetAfterGet(c)

\* What the get() of this step returns
GetReturns ==
    IF \E key \in Keys : CacheGet(key)
    THEN last'.ret
    ELSE IF \E c \in Callers : inflight'[c].pc = "fetch" /\ inflight[c].pc = "get"
         THEN NullValue
         ELSE "value"

\* C32: every get() that settles adds one to exactly one of hits and misses:
\* to hits when it returns a value, to misses when it returns null, the key
\* being absent, the backend failing or the stored text not decoding.
C32_OneCounterPerGet ==
    [][GetSettles =>
          IF GetReturns = NullValue
          THEN stats' = [stats EXCEPT !.misses = @ + 1]
          ELSE stats' = [stats EXCEPT !.hits = @ + 1]]_vars

-----------------------------------------------------------------------------
(* Properties of increment *)

\* The values the increment calls that have ended returned
Returned == {calls[i].ret : i \in DOMAIN calls}

\* The callers are all idle and every call has ended
AllReturned == \A c \in DOMAIN inflight : inflight[c].pc = "idle"

\* The increment calls that did not go through the catch block returned
\* distinct values, which are those from 1 to the counter when none failed;
\* a call with a ttl that returns the reply has left the key with that ttl
IncrementsDistinct ==
    /\ \A i \in DOMAIN calls : \A j \in DOMAIN calls :
          (i # j /\ calls[i].ret # 0) => calls[i].ret # calls[j].ret
    /\ (AllReturned /\ 0 \notin Returned) =>
          \A key \in CounterKeys :
              /\ Returned = 1..Len(calls)
              /\ RedisCounter(redis, GenerateKey(key), now) = Len(calls)

\* The key has the time to live of the call that returned last
CarriesTtl ==
    [][\A c \in DOMAIN inflight :
          (IncrementAfterExpire(c) /\ calls'[Len(calls')].ret # 0) =>
              \E e \in Unexpired(redis', now) :
                  /\ e.key = GenerateKey(inflight[c].key)
                  /\ e.expiresAt = now + inflight[c].ttl]_vars

\* C33: increment(key) is atomic: the calls that overlap on a key that was
\* absent return distinct values, 1 to k for k calls, and leave the counter
\* at k; a call with a ttl leaves the key with that ttl when it returns; a
\* call that returns 0 has not incremented the counter.
C33_AtomicIncrement ==
    /\ []IncrementsDistinct
    /\ CarriesTtl
    /\ [](\A i \in DOMAIN calls : calls[i].ret = 0 => calls[i].result = 0)

-----------------------------------------------------------------------------
(* Properties of the trending cache *)

\* C34: once the runs of the trending refresh have completed, every
\* trending: entry of the cache holds what the table holds, not what it held
\* before a replacement, whatever requests were under way during the runs.
C34_NoStaleTrendingEntry ==
    [](running = {} =>
          \A e \in Unexpired(redis, now) :
              InNamespace(e, <<"trending:", "*">>) =>
                  Deserialize(e.text) = Result(trending))

-----------------------------------------------------------------------------
(* Properties of overlapping getOrSet calls *)

\* C35: of two getOrSet calls for the same key that overlap, the key being
\* absent when the first starts, fetchFunction is invoked once in all, and
\* the two calls return the same value.
C35_SingleFlight ==
    \A c \in DOMAIN inflight : \A d \in DOMAIN inflight \ {c} :
        (/\ calls = <<>>
         /\ inflight[c].pc # "idle" /\ inflight[d].pc # "idle"
         /\ inflight[c].key = inflight[d].key) =>
            /\ inflight[c].fetches + inflight[d].fetches <= 1
            /\ (inflight[c].pc = "set" /\ inflight[d].pc = "set") =>
                   inflight[c].value = inflight[d].value

------------------------------------------------------------------------------
(* Properties of disabled jobs and of the cron triggers *)

\* C36: an invocation of a job's body is started by a cron tick only while
\* the job is enabled, and lastRun changes only in such a tick; the counters
\* of a job change only when an invocation of its body ends; runJob(name)
\* starts an invocation whether or not the job is enabled, and a manual
\* invocation ends leaving lastRun, nextRun and enabled as they were. So
\* the body of a disabled job is started by runJob alone, and its counters
\* are changed by a manual run or by the end of an invocation a tick
\* started while the job was still enabled.
C36_DisabledJobStartsOnlyManually ==
    [][\A name \in JobNames :
          /\ \A inv \in running' :
                 (inv.job = name /\ inv.via = "cron" /\ ~InProgress(running, inv.id)) =>
                     jobs[name].enabled
          /\ jobs'[name].lastRun # jobs[name].lastRun =>
                 /\ jobs[name].enabled
                 /\ \E inv \in running' :
                        inv.job = name /\ inv.via = "cron" /\ ~InProgress(running, inv.id)
          /\ Counters(jobs')[name] # Counters(jobs)[name] =>
                 \E inv \in running : inv.job = name /\ ~InProgress(running', inv.id)
          /\ RunJob(name) =>
                 /\ \E inv \in running' :
                        inv.job = name /\ inv.via = "manual" /\ ~InProgress(running, inv.id)
                 /\ jobs' = jobs /\ tasks' = tasks
          /\ \A inv \in running :
                 (inv.job = name /\ inv.via = "manual" /\ ~InProgress(running', inv.id)) =>
                     /\ jobs'[name].lastRun = jobs[name].lastRun
                     /\ jobs'[name].nextRun = jobs[name].nextRun
                     /\ jobs'[name].enabled = jobs[name].enabled
                     /\ Counters(jobs')[name] # Counters(jobs)[name]]_vars

\* A manual run of a disabled job has just succeeded: it is counted, and
\* the job, never run by cron, has no lastRun and no nextRun
C36_Witness ==
    /\ last.op = "finished" /\ last.arg = "manual" /\ last.ret = "true"
    /\ ~jobs[last.name].enabled /\ ~tasks[last.name]
    /\ jobs[last.name].runCount = 1
    /\ jobs[last.name].lastRun = NoDate /\ jobs[last.name].nextRun = NoDate

\* C36, as stated: every invocation that ends while its job is disabled,
\* changing a counter of the job, is one that runJob started.
C36_OnlyRunJobCountsWhenDisabled ==
    [][\A inv \in running :
          (~InProgress(running', inv.id) /\ ~jobs[inv.job].enabled) =>
              inv.via = "manual"]_vars

\* C37: the enabled flag of every job is true exactly when its cron task
\* is started, so the number of enabled jobs that getStats() reports as
\* activeJobs is the number of started tasks.
C37_EnabledIffStarted ==
    \A name \in JobNames : jobs[name].enabled <=> tasks[name]

------------------------------------------------------------------------------
(* Properties of the alerts raised by recordError *)

\* C38: recordError(type, message) leaves one unresolved alert
\* error-<type>, of severity error; an unresolved error-<type> alert stays
\* unresolved in every step but resolveAlert("error-<type>"), sweeps and
\* cleanups included; and while it is unresolved getHealthStatus() lists it
\* and returns a status other than healthy.
C38_ErrorAlertStaysUntilResolved ==
    [][\A type \in ErrorTypes :
          LET id == ErrorAlertId(type) IN
          /\ (\E message \in ErrorMessages : RecordError(type, message)) =>
                 /\ Cardinality(Unresolved(alerts', id)) = 1
                 /\ \A a \in Unresolved(alerts', id) : a.type = "error"
          /\ (Unresolved(alerts, id) # {} /\ Unresolved(alerts', id) = {}) =>
                 ResolveAlert(id)
          /\ \A a \in Unresolved(alerts', id) : a.type = "error"
          /\ \A db \in HealthOutcomes, c \in HealthOutcomes :
                 (GetHealthStatus(db, c) /\ Unresolved(alerts, id) # {}) =>
                     /\ last'.ret.status \in {"degraded", "unhealthy"}
                     /\ Unresolved(alerts, id) \subseteq last'.ret.alerts]_vars

\* An error alert older than the sweep's minimum age, a system sample
\* being there, is still unresolved, and getHealthStatus(), the database
\* and the cache being healthy, has just returned degraded
C38_Witness ==
    /\ last.op = "getHealthStatus"
    /\ last.ret.status = "degraded"
    /\ systemMetrics # <<>>
    /\ \E type \in ErrorTypes :
           \E a \in Unresolved(alerts, ErrorAlertId(type)) :
               a.type = "error" /\ now - a.timestamp > AutoResolveTime

------------------------------------------------------------------------------
(* Properties of the healthCheck job *)

\* C39: every invocation of the healthCheck job, the dependencies being
\* down, their polls throwing or reporting unhealthy, ends with the job's
\* runCount one higher and its errorCount as it was, and a manual
\* runJob("healthCheck") returns true.
C39_HealthCheckNeverFails ==
    [][\A inv \in running :
          (inv.job = "healthCheck" /\ ~InProgress(running', inv.id)) =>
              /\ jobs'["healthCheck"].runCount = jobs["healthCheck"].runCount + 1
              /\ jobs'["healthCheck"].errorCount = jobs["healthCheck"].errorCount
              /\ last'.op = "finished" /\ last'.name = "healthCheck"
              /\ last'.ret = IF inv.via = "manual" THEN "true" ELSE "void"]_vars

\* With the cache server and the provider down, a cron tick of healthCheck
\* has been counted as a run and a manual run has just returned true
C39_Witness ==
    /\ ~redisUp /\ omdbStatus = "unhealthy"
    /\ last.op = "finished" /\ last.name = "healthCheck"
    /\ last.arg = "manual" /\ last.ret = "true"
    /\ jobs["healthCheck"].runCount = 2
    /\ jobs["healthCheck"].errorCount = 0

------------------------------------------------------------------------------
(* Properties of the home page search *)

\* What the page shows for a query whose request has settled: the results
\* of the search, or none when the query is blank or the request failed
Shown(query) ==
    IF Trim(query) = "" THEN {{}} ELSE {SearchMovies(Trim(query)), {}}

\* The response of a request that a blank query or a later request aborted
\* changes nothing on the page
AbortedResponseDropped ==
    [][\A r \in home.requests, outcome \in SearchOutcomes :
          (SearchSettles(r, outcome) /\ r.aborted) =>
              /\ home'.searchResults = home.searchResults
              /\ home'.searchCache = home.searchCache
              /\ home'.isSearching = home.isSearching]_vars

\* C40: the response of a request after which another query was submitted
\* leaves the displayed results as they are, and when no request is
\* outstanding the displayed results are those of the query submitted
\* last.
C40_LatestQueryShown ==
    /\ [][\A r \in home.requests, outcome \in SearchOutcomes :
             (SearchSettles(r, outcome) /\ r.id < home.searches) =>
                 home'.searchResults = home.searchResults]_vars
    /\ [](home.requests = {} => home.searchResults \in Shown(home.searchQuery))

====
